---- MODULE Spec2Model ----
(***************************************************************************)
(* A model of the Rucio workflow package (src/rucio_workflow): the         *)
(* four-step workflow of WorkflowOrchestrator.execute_workflow (create,    *)
(* register, attach, close, with the compensating cleanup), the            *)
(* DatasetManager and FileManager operations it is built from, and the     *)
(* catalog they talk to.  Every catalog call is one step of the model and  *)
(* its answer is chosen by the catalog, so every combination of answers is *)
(* explored.                                                               *)
(***************************************************************************)
EXTENDS Integers, Sequences, FiniteSets, TLC

(***************************************************************************)
(* Bounds of the model.                                                    *)
(***************************************************************************)
\* Longest file list handed to an operation.
MaxFiles == 2
\* Number of top-level operations the caller issues in one behaviour.
MaxOps == 3
\* Longest identifier tail extract_scope is called on
MaxIdLen == 4
\* Longest text after the prefix of a checksum handed to validate_checksum
MaxHashLen == 33
\* Longest grace period handed to delete_dataset, in hours
MaxGraceHours == 2

(***************************************************************************)
(* Program constants.                                                      *)
(***************************************************************************)
\* register_multiple_files(batch_size=100)
RegisterBatchSize == 100
\* add_files_to_dataset: batch_size = 1000
AttachBatchSize == 1000
\* create_dataset: lifetime_seconds = lifetime_days * 86400
SecondsPerDay == 86400
\* delete_dataset: lifetime_value = grace_period_hours * 3600
SecondsPerHour == 3600
\* execute_workflow(batch_size: int = 100)
WorkflowBatchSize == 100
\* _cleanup_on_failure: grace_period_hours=1
CleanupGraceHours == 1
\* validate_dataset_name: len(dataset_name) > 255
MaxNameLen == 255
\* validate_lfn: len(lfn) > 1024
MaxLfnLen == 1024
\* validate_checksum: ^[a-fA-F0-9]{32}$ after "md5:"
Md5HexLen == 32
\* validate_checksum: ^[a-fA-F0-9]{8}$ after "ad:"
AdlerHexLen == 8

\* An optional value is a sequence: <<>> for None, <<v>> for the value v
None == <<>>
Some(v) == <<v>>
\* a dataset identifier not resolved yet
NoDid == [scope |-> <<>>, name |-> <<>>]

(***************************************************************************)
(* Strings are sequences of one-character strings.                         *)
(***************************************************************************)
Lower == {"a","b","c","d","e","f","g","h","i","j","k","l","m",
          "n","o","p","q","r","s","t","u","v","w","x","y","z"}
Upper == {"A","B","C","D","E","F","G","H","I","J","K","L","M",
          "N","O","P","Q","R","S","T","U","V","W","X","Y","Z"}
Digit == {"0","1","2","3","4","5","6","7","8","9"}
\* the character class [a-zA-Z0-9._-] of validate_dataset_name / validate_scope
NameChars == Lower \cup Upper \cup Digit \cup {".", "_", "-"}
Whitespace == {" "}

\* Variants of the string operations below, used to tell the properties of
\* extract_scope apart from near misses
LastIndex(s, c) ==
    IF \E i \in 1..Len(s) : s[i] = c
    THEN CHOOSE i \in 1..Len(s) : s[i] = c /\ \A j \in (i+1)..Len(s) : s[j] # c
    ELSE 0
SplitWhole(s, c) == <<s>>
RECURSIVE JoinNoSeparator(_, _)
JoinNoSeparator(parts, c) ==
    IF parts = <<>> THEN <<>> ELSE parts[1] \o JoinNoSeparator(Tail(parts), c)
GroupPrefixMisspelt == <<"g","r","u","p">>

Contains(s, c) == \E i \in 1..Len(s) : s[i] = c

\* s.replace(c, '')
RECURSIVE Remove(_, _)
Remove(s, c) ==
    IF s = <<>> THEN <<>>
    ELSE IF Head(s) = c THEN Remove(Tail(s), c)
    ELSE <<Head(s)>> \o Remove(Tail(s), c)

\* index of the first occurrence of c in s (0 when absent)
FirstIndex(s, c) ==
    IF Contains(s, c) THEN CHOOSE i \in 1..Len(s) : s[i] = c /\ \A j \in 1..(i-1) : s[j] # c
    ELSE 0

\* s.split(c): the list of the pieces between the occurrences of c
RECURSIVE Split(_, _)
Split(s, c) ==
    LET i == FirstIndex(s, c) IN
    IF i = 0 THEN <<s>>
    ELSE <<SubSeq(s, 1, i-1)>> \o Split(SubSeq(s, i+1, Len(s)), c)

\* c.join(parts)
RECURSIVE Join(_, _)
Join(parts, c) ==
    IF parts = <<>> THEN <<>>
    ELSE IF Len(parts) = 1 THEN parts[1]
    ELSE parts[1] \o <<c>> \o Join(Tail(parts), c)

\* s.startswith(p)
StartsWith(s, p) == Len(s) >= Len(p) /\ SubSeq(s, 1, Len(p)) = p

\* s.strip()
RECURSIVE LStrip(_)
LStrip(s) == IF s # <<>> /\ Head(s) \in Whitespace THEN LStrip(Tail(s)) ELSE s
RECURSIVE RStrip(_)
RStrip(s) == IF s # <<>> /\ s[Len(s)] \in Whitespace THEN RStrip(SubSeq(s, 1, Len(s)-1)) ELSE s
Strip(s) == RStrip(LStrip(s))

UserPrefix == <<"u","s","e","r">>
GroupPrefix == <<"g","r","o","u","p">>

\* RucioUtils.extract_scope(dataset_name) with strip_slash=False: the pair
\* [ok, scope, name]; ok = FALSE stands for the ValidationError.
ExtractScope(dataset_name) ==
    IF Contains(dataset_name, ":")
    THEN LET i == FirstIndex(dataset_name, ":") IN
         [ok |-> TRUE,
          scope |-> Strip(SubSeq(dataset_name, 1, i-1)),
          name |-> Strip(SubSeq(dataset_name, i+1, Len(dataset_name)))]
    ELSE LET parts == Split(dataset_name, ".") IN
         IF Len(parts) < 2 THEN [ok |-> FALSE, scope |-> <<>>, name |-> <<>>]
         ELSE IF StartsWith(dataset_name, UserPrefix) \/ StartsWith(dataset_name, GroupPrefix)
         THEN IF Len(parts) >= 3
              THEN [ok |-> TRUE, scope |-> Join(SubSeq(parts, 1, 2), "."),
                    name |-> Join(SubSeq(parts, 3, Len(parts)), ".")]
              ELSE [ok |-> TRUE, scope |-> parts[1],
                    name |-> Join(SubSeq(parts, 2, Len(parts)), ".")]
         ELSE [ok |-> TRUE, scope |-> Join(SubSeq(parts, 1, Len(parts)-1), "."),
               name |-> parts[Len(parts)]]

\* extract_scope: `if strip_slash and dataset_name.endswith("/")`, then
\* re.sub("/$", "", dataset_name): one trailing slash is removed
StripSlash(dataset_name, strip) ==
    IF strip /\ dataset_name # <<>> /\ dataset_name[Len(dataset_name)] = "/"
    THEN SubSeq(dataset_name, 1, Len(dataset_name) - 1)
    ELSE dataset_name

\* RucioUtils.extract_scope(dataset_name, strip_slash)
ExtractScopeWith(dataset_name, strip) == ExtractScope(StripSlash(dataset_name, strip))

\* re.match(r'^[a-zA-Z0-9._-]+$', s): one or more characters of the class up
\* to the end of the string, where `$` also matches before one final newline
MatchesNameChars(s) ==
    LET body == IF Len(s) >= 2 /\ s[Len(s)] = "\n" THEN SubSeq(s, 1, Len(s) - 1) ELSE s
    IN  body # <<>> /\ \A i \in 1..Len(body) : body[i] \in NameChars

\* ValidationUtils.validate_dataset_name: TRUE when no ValidationError is raised
ValidateDatasetName(dataset_name) ==
    /\ dataset_name # <<>>
    /\ Len(dataset_name) <= MaxNameLen
    /\ MatchesNameChars(Remove(dataset_name, ":"))

\* RucioUtils.generate_vuid: the md5 digest of scope + ":" + name, a function
\* of that string alone
GenerateVuid(scope, name) == <<"md5">> \o scope \o <<":">> \o name

(***************************************************************************)
(* The validators of FileInfo.__init__ (ValidationUtils); each is TRUE     *)
(* when no ValidationError is raised.                                      *)
(***************************************************************************)
HexChars == Digit \cup {"a","b","c","d","e","f"} \cup {"A","B","C","D","E","F"}
Letters == Lower \cup Upper
\* the character class [a-zA-Z0-9+.-] of validate_pfn
SchemeChars == Letters \cup Digit \cup {"+", ".", "-"}
Newline == "\n"

\* c * n
Repeat(c, n) == [i \in 1..n |-> c]

\* s[from:] (from counted from 0, as Python does)
DropFirst(s, from) == SubSeq(s, from + 1, Len(s))

\* re.match(r'^[a-fA-F0-9]{n}$', s): n hexadecimal characters up to the
\* end of the string, where `$` also matches before one final newline
MatchesHex(s, n) ==
    /\ Len(s) >= n
    /\ \A i \in 1..n : s[i] \in HexChars
    /\ \/ Len(s) = n
       \/ Len(s) = n + 1 /\ s[n + 1] = Newline

\* '://' in pfn
HasSchemeMark(pfn) ==
    \E k \in 1..(Len(pfn) - 2) : SubSeq(pfn, k, k + 2) = <<":", "/", "/">>

\* re.match(r'^[a-zA-Z][a-zA-Z0-9+.-]*://.+', pfn): a letter, scheme
\* characters, "://", then at least one character that is no newline
MatchesUrl(pfn) ==
    \E k \in 1..(Len(pfn) - 3) :
        /\ pfn[1] \in Letters
        /\ \A i \in 2..k : pfn[i] \in SchemeChars
        /\ SubSeq(pfn, k + 1, k + 3) = <<":", "/", "/">>
        /\ pfn[k + 4] # Newline

\* os.path.isabs(pfn)
IsAbs(pfn) == pfn # <<>> /\ pfn[1] = "/"

\* ValidationUtils.validate_lfn
ValidateLfn(lfn) == lfn # <<>> /\ Len(lfn) <= MaxLfnLen

\* ValidationUtils.validate_pfn
ValidatePfn(pfn) ==
    /\ pfn # <<>>
    /\ IF HasSchemeMark(pfn) THEN MatchesUrl(pfn) ELSE IsAbs(pfn)

\* ValidationUtils.validate_file_size: `not isinstance(size, int) or size < 0`
\* raises; a size is the pair of its type and its (integer part of the) value
ValidateFileSize(size) == size.is_int /\ size.value >= 0

Md5Prefix == <<"m","d","5",":">>
AdlerPrefix == <<"a","d",":">>

\* ValidationUtils.validate_checksum
ValidateChecksum(checksum) ==
    /\ checksum # <<>>
    /\ IF StartsWith(checksum, Md5Prefix)
       THEN MatchesHex(DropFirst(checksum, Len(Md5Prefix)), Md5HexLen)
       ELSE IF StartsWith(checksum, AdlerPrefix)
       THEN MatchesHex(DropFirst(checksum, Len(AdlerPrefix)), AdlerHexLen)
       ELSE FALSE

\* A variant of FileInfo.__init__ that leaves the checksum unchecked
ConstructibleSkipsChecksum(item) ==
    /\ ValidateLfn(item.lfn)
    /\ ValidatePfn(item.pfn)
    /\ ValidateFileSize(item.size)

\* FileInfo.__init__: the four validators in order; the record exists only
\* when none of them raised
Constructible(item) ==
    /\ ValidateLfn(item.lfn)
    /\ ValidatePfn(item.pfn)
    /\ ValidateFileSize(item.size)
    /\ ValidateChecksum(item.checksum)

\* _prepare_and_register_files: an element of the list that is neither a
\* FileInfo nor a dict (here a str)
NotADict == [str |-> <<"f", "2">>]
IsDict(item) == item # NotADict

\* _prepare_and_register_files: file_item['lfn'], ['pfn'], ['size'],
\* ['checksum'] raise KeyError when the key is missing ('guid' and 'scope'
\* are read with .get)
RequiredKeys == {"lfn", "pfn", "size", "checksum"}

\* A variant of the conversion that reads the keys with .get
ConvertibleIfDict(item) ==
    IsDict(item) /\ (RequiredKeys \subseteq DOMAIN item => Constructible(item))

\* _prepare_and_register_files: the conversion of one element yields a
\* FileInfo (no ValueError, no KeyError, no ValidationError)
Convertible(item) ==
    /\ IsDict(item)
    /\ RequiredKeys \subseteq DOMAIN item
    /\ Constructible(item)

\* The exception the conversion of one element raises
ConversionError(item) ==
    IF ~IsDict(item) THEN "ValueError"
    ELSE IF ~(RequiredKeys \subseteq DOMAIN item) THEN "KeyError"
    ELSE "ValidationError"

\* The exception the conversion loop stops with: that of the first element
\* it cannot convert
FirstConversionError(items) ==
    LET bad == { i \in 1..Len(items) : ~Convertible(items[i]) }
        first == CHOOSE i \in bad : \A j \in bad : i <= j
    IN  ConversionError(items[first])


(***************************************************************************)
(* Inputs.                                                                 *)
(***************************************************************************)
\* "ds.run" resolves to scope "ds", name "run"; "x" has neither dot nor colon
ValidName == <<"d","s",".","r","u","n">>
UnresolvableName == <<"x">>
DatasetNames == {ValidName, UnresolvableName}

\* A file item of the input list: a dictionary with the logical name, the
\* scope, the physical name, the size and the checksum.
GoodPfn == <<"/", "p">>
GoodSize == [is_int |-> TRUE, value |-> 1]
GoodChecksum == AdlerPrefix \o Repeat("1", AdlerHexLen)
FileItem(lfn, scope) ==
    [lfn |-> lfn, scope |-> scope, pfn |-> GoodPfn, size |-> GoodSize,
     checksum |-> GoodChecksum]
F1 == <<"f", "1">>
F2 == <<"f", "2">>
\* Three items FileInfo(...) accepts (two of them with the same logical
\* name), and items it rejects, one for each way a field can be wrong, a
\* dict without the key 'checksum', and an element that is not a dict
WellFormedItems == { FileItem(F1, "s1"), FileItem(F1, "s2"), FileItem(F2, "s1") }
MalformedItems ==
    { [FileItem(F2, "s1") EXCEPT !.lfn = <<>>],
      [FileItem(F2, "s1") EXCEPT !.lfn = Repeat("f", MaxLfnLen + 1)],
      [FileItem(F2, "s1") EXCEPT !.pfn = <<"p">>],
      [FileItem(F2, "s1") EXCEPT !.size = [is_int |-> TRUE, value |-> -1]],
      [FileItem(F2, "s1") EXCEPT !.size = [is_int |-> FALSE, value |-> 1]],
      [FileItem(F2, "s1") EXCEPT !.checksum = Md5Prefix \o Repeat("1", AdlerHexLen)],
      [lfn |-> F2, scope |-> "s1", pfn |-> GoodPfn, size |-> GoodSize],
      NotADict }
FileItems == WellFormedItems \cup MalformedItems

RECURSIVE SeqsUpTo(_, _)
SeqsUpTo(S, n) ==
    IF n = 0 THEN {<<>>}
    ELSE LET shorter == SeqsUpTo(S, n-1) IN
         shorter \cup { Append(q, x) : q \in shorter, x \in S }

FileLists == SeqsUpTo(FileItems, MaxFiles)
LifetimeChoices == {None, Some(7)}

\* dataset_scope: not given, or a scope validate_scope rejects (empty, or
\* with a character outside [a-zA-Z0-9._-])
EmptyScope == <<>>
BadScope == <<"s", " ">>
ScopeChoices == {None, Some(EmptyScope), Some(BadScope)}

\* The DID "scope:name" of a file record
FileDid(f) == <<f.scope, f.lfn>>
FileDids(fs) == { FileDid(fs[i]) : i \in 1..Len(fs) }

(***************************************************************************)
(* The catalog: the answers a call can get, and what an accepted call      *)
(* changes (MockRucioClient).  A call that is not accepted changes nothing.*)
(***************************************************************************)
Answers(call) ==
    CASE call = "add_dataset"          -> {"ok", "already_exists", "error"}
      [] call = "set_metadata"         -> {"ok", "not_found", "error"}
      [] call = "get_metadata"         -> {"ok", "not_found", "error"}
      [] call = "set_status"           -> {"ok", "unsupported", "not_found", "error"}
      [] call = "add_replicas"         -> {"ok", "already_exists", "error"}
      [] call = "add_files_to_dataset" -> {"ok", "already_exists", "error"}
      [] call = "list_files"           -> {"ok", "not_found", "error"}
      [] call = "get_did"              -> {"ok", "not_found", "error"}
      [] call = "list_replicas"        -> {"ok", "empty", "error"}
      [] call = "attach_dids"          -> {"ok", "not_found", "error"}

\* MockRucioClient.add_dataset
CatAddDataset(datasets, did) ==
    (did :> [is_open |-> TRUE, lifetime |-> None, did_type |-> "DATASET"]) @@ datasets

\* MockRucioClient.set_status
CatSetStatus(datasets, did, open) ==
    IF did \in DOMAIN datasets THEN [datasets EXCEPT ![did].is_open = open] ELSE datasets

\* MockRucioClient.set_metadata (key = "lifetime")
CatSetMetadata(datasets, did, value) ==
    IF did \in DOMAIN datasets THEN [datasets EXCEPT ![did].lifetime = Some(value)] ELSE datasets

\* MockRucioClient.add_files_to_dataset: each file DID is recorded with its dataset
CatAddFiles(cfiles, did, fdids) ==
    [f \in fdids |-> did] @@ cfiles

\* MockRucioClient.list_files: the files recorded with the dataset
CatListFiles(cfiles, did) == { f \in DOMAIN cfiles : cfiles[f] = did }

\* The catalog is shared: when the program starts, the dataset it will work
\* on is absent, or present and open, or present and closed.
ValidDid == [scope |-> <<"d","s">>, name |-> <<"r","u","n">>]
InitialDatasets ==
    { [x \in {} |-> [is_open |-> TRUE, lifetime |-> None, did_type |-> "DATASET"]] } \cup
    { (ValidDid :> [is_open |-> o, lifetime |-> None, did_type |-> "DATASET"]) : o \in BOOLEAN }

\* MockRucioClient.get_metadata: the dictionary the catalog holds for the DID
CatGetMetadata(datasets, did) == datasets[did]

(***************************************************************************)
(* State.                                                                  *)
(***************************************************************************)
VARIABLES
    pc,                   \* the catalog call the running operation issues next
    op,                   \* the running (or last) top-level operation
    nops,                 \* operations started so far
    dataset_name,         \* argument
    dataset_scope,        \* argument of execute_workflow (None: not given)
    strip_slash,          \* argument of extract_scope
    rse,                  \* argument of attach_files (None: not given); no other
                          \* operation branches on its rse
    grace_period_hours,   \* argument of delete_dataset
    metadata,             \* the dictionary get_dataset_metadata returned (None
                          \* when it returned None or has not returned)
    batch_size_arg,       \* argument batch_size of execute_workflow
    first_run,            \* RunsSpec: arguments, responses, calls and result of
                          \* the first of two runs, and the tracking sets it left
    responses,            \* RunsSpec: what the catalog answered to the calls of
                          \* the operation, in order (NotRecorded elsewhere)
    files,                \* argument
    lifetime_days,        \* argument
    expected_file_count,  \* argument of verify_workflow_completion
    dataset_info,         \* scope and name the operation resolved
    result,               \* WorkflowOrchestrator.current_workflow
    file_infos,           \* the FileInfo list of the register / attach step
    registration_results, \* register_multiple_files: results
    batch_size,           \* size of the batches of the running loop
    batch_start,          \* first index of the current batch
    idx,                  \* index of the record retried individually
    ret,                  \* value the operation returned (or the exception class)
    outcome,              \* "running", "returned" or "raised"
    calls,                \* catalog calls the operation has issued, in order
    answer,               \* the catalog's answer to the latest call
    add_dataset_answer,   \* the catalog's answer to the operation's add_dataset
    all_ok,               \* every call of the operation was answered "ok"
    accepted,             \* file DIDs sent in an add_replicas call the catalog
                          \* accepted ("ok") or answered "already_exists"
    acknowledged,         \* file DIDs sent in a batch add_replicas call answered
                          \* "ok", or alone in a call of register_file_replica
                          \* answered "ok" or "already_exists"
    created_datasets,     \* DatasetManager._created_datasets
    registered_files,     \* FileManager._registered_files
    create_returns,       \* what the create_dataset calls returned, in order
    prev,                 \* summary of the previous operation
    mark_count,           \* mark_complete calls of the current run
    cat_datasets,         \* catalog: datasets
    cat_files,            \* catalog: files attached to datasets
    cat_replicas          \* catalog: replicas

catVars == <<cat_datasets, cat_files, cat_replicas>>
argVars == <<op, nops, dataset_name, dataset_scope, strip_slash, rse, grace_period_hours, metadata,
            batch_size_arg, first_run, files, lifetime_days, expected_file_count>>
regVars == <<file_infos, registration_results, batch_size, batch_start, idx>>
trackVars == <<created_datasets, registered_files>>
vars == <<pc, op, nops, dataset_name, dataset_scope, strip_slash, rse, grace_period_hours, metadata,
          batch_size_arg, first_run, responses, files, lifetime_days, expected_file_count,
          dataset_info, result, file_infos, registration_results, batch_size,
          batch_start, idx, ret, outcome, calls, answer, add_dataset_answer, all_ok,
          accepted, acknowledged,
          created_datasets, registered_files, create_returns, prev, mark_count,
          cat_datasets, cat_files, cat_replicas>>

EmptyFn == << >>

\* The value of `responses` in the specifications that keep no record of them
NotRecorded == <<"off">>

\* WorkflowResult.__init__
NewResult ==
    [success |-> FALSE, dataset_created |-> FALSE, dataset_info |-> None,
     files_registered |-> 0, files_added_to_dataset |-> 0, dataset_closed |-> FALSE,
     errors |-> <<>>, end_time |-> None]

\* WorkflowResult.mark_complete; the clock is the number of calls issued
MarkComplete(res, success, now) ==
    [res EXCEPT !.success = success, !.end_time = Some(now)]

\* WorkflowResult.add_error
AddError(res, msg) == [res EXCEPT !.errors = Append(@, msg)]

Init ==
    /\ pc = "idle"
    /\ op = "none"
    /\ nops = 0
    /\ dataset_name = <<>>
    /\ dataset_scope = None
    /\ strip_slash = FALSE
    /\ rse = None
    /\ grace_period_hours = None
    /\ metadata = None
    /\ batch_size_arg = WorkflowBatchSize
    /\ first_run = None
    /\ responses = NotRecorded
    /\ files = <<>>
    /\ lifetime_days = None
    /\ expected_file_count = 0
    /\ dataset_info = NoDid
    /\ result = "none"
    /\ file_infos = <<>>
    /\ registration_results = EmptyFn
    /\ batch_size = RegisterBatchSize
    /\ batch_start = 1
    /\ idx = 0
    /\ ret = "None"
    /\ outcome = "returned"
    /\ calls = <<>>
    /\ answer = "-"
    /\ add_dataset_answer = "-"
    /\ all_ok = TRUE
    /\ accepted = {}
    /\ acknowledged = {}
    /\ created_datasets = {}
    /\ registered_files = {}
    /\ create_returns = <<>>
    /\ prev = [op |-> "none", all_ok |-> TRUE, returned |-> TRUE]
    /\ mark_count = 0
    /\ cat_datasets \in InitialDatasets
    /\ cat_files = EmptyFn
    /\ cat_replicas = {}


(***************************************************************************)
(* Helpers of the operations.                                              *)
(***************************************************************************)
Min(a, b) == IF a < b THEN a ELSE b

\* A Python bool as the operation returns it
PyBool(b) == IF b THEN "True" ELSE "False"

\* What the client hands back for a call: the exception, or "ok", with the
\* is_open of the dictionary get_metadata returns
Response(call, did, a) ==
    IF call = "get_metadata" /\ a = "ok"
    THEN IF CatGetMetadata(cat_datasets, did).is_open THEN "ok_open" ELSE "ok_closed"
    ELSE a

\* One catalog call, appended to the log, and its answer; `value` is the
\* lifetime of a set_metadata call and, in the log only, the index of the
\* first record of a batch add_replicas call (0 for a call of
\* register_file_replica)
Issue(call, did, fdids, open, value, a) ==
    /\ calls' = Append(calls, [call |-> call, did |-> did, files |-> fdids,
                               open |-> open, value |-> value])
    /\ answer' = a
    /\ responses' = IF responses = NotRecorded THEN NotRecorded
                    ELSE Append(responses, Response(call, did, a))
    /\ add_dataset_answer' = IF call = "add_dataset" THEN a ELSE add_dataset_answer
    /\ all_ok' = (all_ok /\ a = "ok")
    /\ accepted' = IF call = "add_replicas" /\ a \in {"ok", "already_exists"}
                   THEN accepted \cup { fdids[i] : i \in 1..Len(fdids) }
                   ELSE accepted
    /\ acknowledged' = IF /\ call = "add_replicas"
                          /\ \/ a = "ok"
                             \/ a = "already_exists" /\ pc = "register_file_replica"
                       THEN acknowledged \cup { fdids[i] : i \in 1..Len(fdids) }
                       ELSE acknowledged

\* RunsSpec: the catalog answers the calls of the second run as it answered
\* those of the first
SameResponse(call, did, a) ==
    first_run # None =>
        /\ Len(responses) < Len(first_run[1].responses)
        /\ Response(call, did, a) = first_run[1].responses[Len(responses) + 1]

\* The catalog accepts get_metadata and add_files_to_dataset only for a
\* dataset it holds (MockRucioClient raises otherwise), and answers
\* "already exists" to add_dataset only for a dataset it holds
Possible(call, did, a) ==
    /\ a \in Answers(call)
    /\ SameResponse(call, did, a)
    /\ (call \in {"get_metadata", "add_files_to_dataset", "get_did", "attach_dids"}
           /\ a = "ok")
           => did \in DOMAIN cat_datasets
    /\ (call = "add_dataset" /\ a = "already_exists")
           => did \in DOMAIN cat_datasets

\* create_dataset: validate_dataset_name, then extract_scope (scope not given)
ResolveForCreate(n) ==
    IF ValidateDatasetName(n) THEN ExtractScope(n)
    ELSE [ok |-> FALSE, scope |-> <<>>, name |-> <<>>]

\* ValidationUtils.validate_scope: TRUE when no ValidationError is raised
ValidateScope(scope) ==
    /\ scope # <<>>
    /\ MatchesNameChars(scope)

\* create_dataset with the scope argument: validate_dataset_name, then
\* extract_scope when no scope is given, validate_scope when one is
ResolveScoped(n, sc) ==
    IF sc = None THEN ResolveForCreate(n)
    ELSE IF ValidateDatasetName(n) /\ ValidateScope(sc[1])
         THEN [ok |-> TRUE, scope |-> sc[1], name |-> n]
         ELSE [ok |-> FALSE, scope |-> <<>>, name |-> <<>>]

\* create_dataset: the dictionary returned
DatasetInfo(did) ==
    [duid |-> GenerateVuid(did.scope, did.name), version |-> 1,
     vuid |-> GenerateVuid(did.scope, did.name), scope |-> did.scope, name |-> did.name]

\* Variants of the handlers below, each with one `except` or one condition
\* changed; the properties at the end of the module tell them apart from
\* the handlers.
AddDatasetAcceptedAny(a) == TRUE
AddDatasetAcceptedOnlyOk(a) == a = "ok"
CloseAcceptedOnlyOk(a) == a = "ok"
CleanupAlways(res) == TRUE
AfterCleanupRecords(res, a) ==
    IF a = "error" THEN AddError(res, <<"Cleanup failed">>) ELSE res
CleanupOutcomeRaises(a) == IF a = "error" THEN "raised" ELSE "returned"
NoneRegisteredBelowTwo(n) == n <= 1
MarkBatchFirst(infos, lo, hi, results) ==
    [ l \in DOMAIN results \cup {infos[lo].lfn} |->
        IF l \in DOMAIN results THEN results[l] ELSE TRUE ]

CloseAcceptedNotUnsupported(a) == a \in {"ok", "not_found"}

StateOfAlwaysClosed(md) == "closed"
StateOfIgnoresType(md) == IF md.is_open THEN "open" ELSE "closed"

AfterCleanupRefinalizes(res, a) == MarkComplete(res, a = "ok", 0)
NoneRegisteredNever(n) == FALSE

DeleteDatasetCallReopens == "set_status"

CleanupUnlessClosed(res) == ~res.dataset_closed

LifetimeSecondsInHours(days) == days * SecondsPerHour
NeedsOpeningWhenever(a, datasets, did) == a = "ok"

BatchEndWholeList(infos, start, size) == Len(infos)
ReplicaAcceptedOnlyOk(a) == a = "ok"
AttachAcceptedOnlyOk(a) == a = "ok"

DatasetFoundAlways(a) == TRUE
DeleteAcceptedOnlyOk(a) == a = "ok"

CleanupOnlyIfNew(res) == res.dataset_created /\ add_dataset_answer = "ok"
NeedsOpeningUnlessAnswered(a, datasets, did) == a # "ok" \/ ~datasets[did].is_open
FailRunStepOnly(res, step_msg, cause, now) ==
    MarkComplete(AddError(res, <<step_msg>> \o cause), FALSE, now)

NoneRegisteredOfSome(n) == n = 0 /\ files # <<>>

RegistrationBatchSizeFromArg(arg) == arg
AddDatasetAcceptedUnlessTracked(a) ==
    a \in {"ok", "already_exists"} /\ dataset_info \notin created_datasets

\* create_dataset: `except DataIdentifierAlreadyExists` around add_dataset
AddDatasetAccepted(a) == a \in {"ok", "already_exists"}

\* register_file_replica: `except FileAlreadyExists` around add_replicas
ReplicaAccepted(a) == a \in {"ok", "already_exists"}

\* close_dataset: `except (UnsupportedOperation, DataIdentifierNotFound)`
CloseAccepted(a) == a \in {"ok", "unsupported", "not_found"}

\* delete_dataset: `except DataIdentifierNotFound` around set_metadata
DeleteAccepted(a) == a \in {"ok", "not_found"}

\* add_files_to_dataset: `except FileAlreadyExists` around the call for one
\* file
AttachAccepted(a) == a \in {"ok", "already_exists"}

\* delete_dataset: lifetime_value = grace_period_hours * 3600
DeletionLifetime(hours) == hours * SecondsPerHour

\* attach_files: get_did returned (`except DataIdentifierNotFound` raises
\* DatasetError, any other exception is wrapped into one)
DatasetFound(a) == a = "ok"

\* attach_files: `'scope' not in file_info or 'name' not in file_info` is false
EntryComplete(e) == {"scope", "name"} \subseteq DOMAIN e

\* attach_files: file_dids
EntryDids(entries) == [j \in 1..Len(entries) |-> <<entries[j].scope, entries[j].name>>]

\* _prepare_and_register_files: register_multiple_files(files=file_infos,
\* rse=rse) is called without a batch_size, so the default applies
RegistrationBatchSize(arg) == RegisterBatchSize

\* _add_files_to_dataset: add_files_to_dataset is called without the
\* batch_size it was given, and add_files_to_dataset sets its own
AttachmentBatchSize(arg) == AttachBatchSize

\* create_dataset: lifetime_seconds = lifetime_days * 86400
LifetimeSeconds(days) == days * SecondsPerDay

\* create_dataset: get_metadata answered, and
\* `if not metadata.get('is_open', False)` holds: set_status(open=True) follows
NeedsOpening(a, datasets, did) == a = "ok" /\ ~datasets[did].is_open

\* get_dataset_metadata: the derived state of the metadata the catalog
\* returned
StateOf(md) ==
    IF md.is_open /\ md.did_type # "CONTAINER" THEN "open" ELSE "closed"

\* delete_dataset: the one client call it issues; it sets a short lifetime
\* and erases nothing
DeleteDatasetCall == "set_metadata"

\* execute_workflow: `if result.dataset_created` before _cleanup_on_failure
CleanupNeeded(res) == res.dataset_created

\* _cleanup_on_failure: its `except Exception` only logs, so the finalized
\* result is what it was, whatever delete_dataset did
AfterCleanup(res, a) == res

\* _cleanup_on_failure: nothing is raised to execute_workflow
CleanupOutcome(a) == "returned"

\* The except blocks of a step and of execute_workflow: the step's message,
\* then the wrapping message, then mark_complete(success=False)
FailRun(res, step_msg, cause, now) ==
    MarkComplete(
        AddError(AddError(res, <<step_msg>> \o cause),
                 <<"Workflow execution failed", step_msg>> \o cause),
        FALSE, now)

\* _prepare_and_register_files: successful_registrations
SuccessfulRegistrations(results) ==
    Cardinality({ l \in DOMAIN results : results[l] })

\* _prepare_and_register_files: `if successful_registrations == 0`
NoneRegistered(n) == n = 0

\* _prepare_and_register_files: successful_files
Registered(results, f) == f.lfn \in DOMAIN results /\ results[f.lfn]
SuccessfulFiles(infos, results) ==
    LET Keep(f) == Registered(results, f) IN SelectSeq(infos, Keep)

\* register_multiple_files: batch = files[i:i + batch_size]
BatchEnd(infos, start, size) == Min(start + size - 1, Len(infos))

\* register_multiple_files: `if file_info.lfn not in results`, in list order:
\* the records of the slice that get an entry when the batch call is accepted
FirstNew(infos, lo, hi, results) ==
    { i \in lo..hi : /\ infos[i].lfn \notin DOMAIN results
                     /\ \A j \in lo..(i-1) : infos[j].lfn # infos[i].lfn }

\* register_multiple_files: results after an accepted batch call
MarkBatch(infos, lo, hi, results) ==
    [ l \in DOMAIN results \cup { infos[i].lfn : i \in lo..hi } |->
        IF l \in DOMAIN results THEN results[l] ELSE TRUE ]

\* register_multiple_files: the next record of the failed batch that is
\* registered individually (0 when none is left)
NextRetry(infos, lo, hi, results) ==
    LET todo == { i \in lo..hi : infos[i].lfn \notin DOMAIN results } IN
    IF todo = {} THEN 0 ELSE CHOOSE i \in todo : \A j \in todo : i <= j

\* results[lfn] = value
SetResult(results, lfn, value) == (lfn :> value) @@ results

(***************************************************************************)
(* Step fragments: what the program does between two catalog calls.  They  *)
(* set pc, result, ret, outcome and mark_count.                            *)
(***************************************************************************)
\* execute_workflow: `except Exception as e` (a step raised)
WorkflowFails(res, step_msg, cause, now, marks) ==
    /\ result' = FailRun(res, step_msg, cause, now)
    /\ mark_count' = marks + 1
    /\ IF CleanupNeeded(res)
       THEN pc' = "cleanup" /\ outcome' = "running" /\ ret' = "None"
       ELSE pc' = "done" /\ outcome' = "returned" /\ ret' = "WorkflowResult"

\* create_dataset raised DatasetError
CreateRaises(res, cause, now, marks) ==
    /\ UNCHANGED <<regVars, trackVars, create_returns>>
    /\ IF op' = "execute_workflow"
       THEN WorkflowFails(res, "Failed to create dataset", cause, now, marks)
       ELSE /\ pc' = "done" /\ outcome' = "raised" /\ ret' = "DatasetError"
            /\ result' = res /\ mark_count' = marks

\* register_multiple_files returned `results` to _prepare_and_register_files
RegistrationReturns(res, infos, results, now) ==
    LET n == SuccessfulRegistrations(results)
        res1 == [res EXCEPT !.files_registered = n]
    IN  /\ registration_results' = results
        /\ idx' = 0
        /\ IF NoneRegistered(n)
           THEN /\ file_infos' = infos
                /\ UNCHANGED <<batch_size, batch_start>>
                /\ WorkflowFails(res1, "Failed to register files",
                                 <<"No files were successfully registered">>, now,
                                 mark_count)
           ELSE /\ file_infos' = SuccessfulFiles(infos, results)
                /\ batch_size' = AttachmentBatchSize(batch_size_arg')
                /\ batch_start' = 1
                /\ result' = res1
                /\ pc' = "add_files_to_dataset"
                /\ UNCHANGED <<ret, outcome, mark_count>>

\* create_dataset returned; in a workflow run _prepare_and_register_files
\* follows up to its first catalog call
CreateReturns(res, did, now) ==
    /\ created_datasets' = created_datasets \cup {did}
    /\ create_returns' = Append(create_returns, [arg |-> dataset_name', info |-> DatasetInfo(did)])
    /\ UNCHANGED registered_files
    /\ IF op' = "execute_workflow"
       THEN LET res1 == [res EXCEPT !.dataset_created = TRUE,
                                    !.dataset_info = Some(DatasetInfo(did))]
            IN  IF \E i \in 1..Len(files') : ~Convertible(files'[i])
                THEN /\ UNCHANGED regVars
                     /\ WorkflowFails(res1, "Failed to register files",
                                      <<FirstConversionError(files')>>, now, mark_count)
                ELSE IF files' = <<>>
                THEN RegistrationReturns(res1, <<>>, EmptyFn, now)
                ELSE /\ file_infos' = files'
                     /\ registration_results' = EmptyFn
                     /\ batch_size' = RegistrationBatchSize(batch_size_arg')
                     /\ batch_start' = 1
                     /\ idx' = 0
                     /\ result' = res1
                     /\ pc' = "add_replicas"
                     /\ UNCHANGED <<ret, outcome, mark_count>>
       ELSE /\ pc' = "done" /\ outcome' = "returned" /\ ret' = "DatasetInfo"
            /\ result' = res /\ mark_count' = mark_count
            /\ UNCHANGED regVars


(***************************************************************************)
(* The caller starts an operation; the operation runs up to its first      *)
(* catalog call.                                                           *)
(***************************************************************************)
\* The caller: a workflow run is the first thing it does, and after a run it
\* only verifies a successful run (examples/basic_workflow_example.py); the
\* DatasetManager operations are called in any order.
Idle == pc \in {"idle", "done"} /\ nops < MaxOps
CanRun == Idle /\ nops = 0
CanManage == Idle /\ op # "execute_workflow" /\ prev.op # "execute_workflow"
CanInspect == Idle /\ nops <= 1
CanVerify(n, k) ==
    /\ Idle
    /\ prev.op # "execute_workflow"
    /\ op = "execute_workflow" => result.success /\ n = dataset_name /\ k = Len(files)

Begin(o, n, fs, lt, k) ==
    /\ op' = o
    /\ nops' = nops + 1
    /\ dataset_name' = n
    /\ strip_slash' = FALSE
    /\ metadata' = None
    /\ responses' = IF responses = NotRecorded THEN NotRecorded ELSE <<>>
    /\ files' = fs
    /\ lifetime_days' = lt
    /\ expected_file_count' = k
    /\ calls' = <<>>
    /\ answer' = "-"
    /\ add_dataset_answer' = "-"
    /\ all_ok' = TRUE
    /\ accepted' = {}
    /\ acknowledged' = {}
    /\ prev' = [op |-> op, all_ok |-> all_ok /\ outcome = "returned",
                returned |-> outcome = "returned"]
    /\ UNCHANGED catVars

\* execute_workflow up to its first catalog call: a new WorkflowResult, then
\* _create_dataset
StartWorkflow(n, sc, fs, lt, bs) ==
    /\ Begin("execute_workflow", n, fs, lt, expected_file_count)
    /\ dataset_scope' = sc
    /\ rse' = None /\ grace_period_hours' = None
    /\ batch_size_arg' = bs
    /\ LET r == ResolveScoped(n, sc) IN
       IF r.ok
       THEN /\ dataset_info' = [scope |-> r.scope, name |-> r.name]
            /\ result' = NewResult
            /\ mark_count' = 0
            /\ pc' = "add_dataset" /\ outcome' = "running" /\ ret' = "None"
            /\ UNCHANGED <<regVars, trackVars, create_returns>>
       ELSE /\ dataset_info' = NoDid
            /\ CreateRaises(NewResult, <<"ValidationError">>, 0, 0)

\* WorkflowOrchestrator.execute_workflow(dataset_name, files, rse,
\* dataset_scope, dataset_lifetime_days, batch_size)
ExecuteWorkflow(n, sc, fs, lt, bs) ==
    /\ CanRun
    /\ first_run' = first_run
    /\ StartWorkflow(n, sc, fs, lt, bs)

\* DatasetManager.create_dataset(dataset_name, lifetime_days=lt)
CreateDataset(n, lt) ==
    /\ CanManage
    /\ Begin("create_dataset", n, files, lt, expected_file_count)
    /\ dataset_scope' = None
    /\ rse' = None /\ grace_period_hours' = None
    /\ UNCHANGED <<batch_size_arg, first_run>>
    /\ LET r == ResolveForCreate(n) IN
       IF r.ok
       THEN /\ dataset_info' = [scope |-> r.scope, name |-> r.name]
            /\ pc' = "add_dataset" /\ outcome' = "running" /\ ret' = "None"
            /\ UNCHANGED <<result, mark_count, regVars, trackVars, create_returns>>
       ELSE /\ dataset_info' = NoDid
            /\ CreateRaises(result, <<"ValidationError">>, 0, mark_count)

\* DatasetManager.close_dataset(dataset_name)
CloseDataset(n) ==
    /\ CanManage
    /\ Begin("close_dataset", n, files, lifetime_days, expected_file_count)
    /\ dataset_scope' = None
    /\ rse' = None /\ grace_period_hours' = None
    /\ UNCHANGED <<batch_size_arg, first_run>>
    /\ UNCHANGED <<result, mark_count, regVars, trackVars, create_returns>>
    /\ LET r == ExtractScope(n) IN
       IF r.ok
       THEN /\ dataset_info' = [scope |-> r.scope, name |-> r.name]
            /\ pc' = "close_dataset" /\ outcome' = "running" /\ ret' = "None"
       ELSE /\ dataset_info' = NoDid
            /\ pc' = "done" /\ outcome' = "raised" /\ ret' = "DatasetError"

\* WorkflowOrchestrator.verify_workflow_completion(dataset_name, k)
VerifyWorkflowCompletion(n, k) ==
    /\ CanVerify(n, k)
    /\ Begin("verify_workflow_completion", n, files, lifetime_days, k)
    /\ dataset_scope' = None
    /\ rse' = None /\ grace_period_hours' = None
    /\ UNCHANGED <<batch_size_arg, first_run>>
    /\ UNCHANGED <<result, mark_count, regVars, trackVars, create_returns>>
    /\ LET r == ExtractScope(n) IN
       IF r.ok
       THEN /\ dataset_info' = [scope |-> r.scope, name |-> r.name]
            /\ pc' = "verify_metadata" /\ outcome' = "running" /\ ret' = "None"
       ELSE /\ dataset_info' = NoDid
            /\ pc' = "done" /\ outcome' = "returned" /\ ret' = "False"

(***************************************************************************)
(* create_dataset, one catalog call per step.                              *)
(***************************************************************************)
\* create_dataset: client.add_dataset
AddDataset ==
    /\ pc = "add_dataset"
    /\ \E a \in Answers("add_dataset") :
        /\ Possible("add_dataset", dataset_info, a)
        /\ Issue("add_dataset", dataset_info, <<>>, "-", 0, a)
        /\ cat_datasets' = IF a = "ok" THEN CatAddDataset(cat_datasets, dataset_info)
                           ELSE cat_datasets
        /\ UNCHANGED <<cat_files, cat_replicas, argVars, prev, dataset_info>>
        /\ IF AddDatasetAccepted(a)
           THEN /\ pc' = IF lifetime_days # None THEN "set_lifetime" ELSE "get_metadata"
                /\ UNCHANGED <<result, ret, outcome, mark_count, regVars, trackVars,
                               create_returns>>
           ELSE CreateRaises(result, <<"add_dataset", a>>, Len(calls'), mark_count)

\* create_dataset: client.set_metadata(key="lifetime"), failure only logged
SetLifetime ==
    /\ pc = "set_lifetime"
    /\ \E a \in Answers("set_metadata") :
        /\ Possible("set_metadata", dataset_info, a)
        /\ Issue("set_metadata", dataset_info, <<>>, "-", LifetimeSeconds(lifetime_days[1]), a)
        /\ cat_datasets' = IF a = "ok"
                           THEN CatSetMetadata(cat_datasets, dataset_info,
                                               LifetimeSeconds(lifetime_days[1]))
                           ELSE cat_datasets
        /\ pc' = "get_metadata"
        /\ UNCHANGED <<cat_files, cat_replicas, argVars, prev, dataset_info, result, ret,
                       outcome, mark_count, regVars, trackVars, create_returns>>

\* create_dataset: client.get_metadata, then set_status only `if not is_open`
GetMetadata ==
    /\ pc = "get_metadata"
    /\ \E a \in Answers("get_metadata") :
        /\ Possible("get_metadata", dataset_info, a)
        /\ Issue("get_metadata", dataset_info, <<>>, "-", 0, a)
        /\ UNCHANGED <<catVars, argVars, prev, dataset_info>>
        /\ IF NeedsOpening(a, cat_datasets, dataset_info)
           THEN /\ pc' = "set_status_open"
                /\ UNCHANGED <<result, ret, outcome, mark_count, regVars, trackVars,
                               create_returns>>
           ELSE CreateReturns(result, dataset_info, Len(calls'))

\* create_dataset: client.set_status(open=True), failure only logged
SetStatusOpen ==
    /\ pc = "set_status_open"
    /\ \E a \in Answers("set_status") :
        /\ Possible("set_status", dataset_info, a)
        /\ Issue("set_status", dataset_info, <<>>, "True", 0, a)
        /\ cat_datasets' = IF a = "ok" THEN CatSetStatus(cat_datasets, dataset_info, TRUE)
                           ELSE cat_datasets
        /\ UNCHANGED <<cat_files, cat_replicas, argVars, prev, dataset_info>>
        /\ CreateReturns(result, dataset_info, Len(calls'))


(***************************************************************************)
(* register_multiple_files.                                                *)
(***************************************************************************)
\* The loop moves to the next batch, or returns the results
AfterBatch(results, tracked, now) ==
    /\ registered_files' = tracked
    /\ UNCHANGED <<created_datasets, create_returns>>
    /\ IF BatchEnd(file_infos, batch_start, batch_size) < Len(file_infos)
       THEN /\ registration_results' = results
            /\ batch_start' = batch_start + batch_size
            /\ idx' = 0
            /\ pc' = "add_replicas"
            /\ UNCHANGED <<file_infos, batch_size, result, ret, outcome, mark_count>>
       ELSE IF op = "register_multiple_files"
       THEN /\ registration_results' = results
            /\ idx' = 0
            /\ pc' = "done" /\ outcome' = "returned" /\ ret' = "Dict"
            /\ UNCHANGED <<file_infos, batch_size, batch_start, result, mark_count>>
       ELSE RegistrationReturns(result, file_infos, results, now)

\* register_multiple_files: client.add_replicas for the whole batch
AddReplicas ==
    /\ pc = "add_replicas"
    /\ LET lo == batch_start
           hi == BatchEnd(file_infos, batch_start, batch_size)
           batch == SubSeq(file_infos, lo, hi)
       IN \E a \in Answers("add_replicas") :
            /\ Possible("add_replicas", NoDid, a)
            /\ Issue("add_replicas", NoDid, [i \in 1..Len(batch) |-> FileDid(batch[i])], "-", lo, a)
            /\ UNCHANGED <<cat_datasets, cat_files, argVars, prev, dataset_info>>
            /\ IF a = "ok"
               THEN /\ cat_replicas' = cat_replicas \cup FileDids(batch)
                    /\ AfterBatch(MarkBatch(file_infos, lo, hi, registration_results),
                                  registered_files \cup
                                    { FileDid(file_infos[i]) :
                                        i \in FirstNew(file_infos, lo, hi, registration_results) },
                                  Len(calls'))
               ELSE /\ cat_replicas' = cat_replicas
                    /\ LET j == NextRetry(file_infos, lo, hi, registration_results) IN
                       IF j = 0
                       THEN AfterBatch(registration_results, registered_files, Len(calls'))
                       ELSE /\ idx' = j
                            /\ pc' = "register_file_replica"
                            /\ UNCHANGED <<file_infos, registration_results, batch_size,
                                           batch_start, result, ret, outcome, mark_count,
                                           trackVars, create_returns>>

\* register_multiple_files, after a failed batch: register_file_replica for
\* one record (client.add_replicas with that record alone)
RegisterFileReplica ==
    /\ pc = "register_file_replica"
    /\ LET f == file_infos[idx]
           hi == BatchEnd(file_infos, batch_start, batch_size)
       IN \E a \in Answers("add_replicas") :
            /\ Possible("add_replicas", NoDid, a)
            /\ Issue("add_replicas", NoDid, <<FileDid(f)>>, "-", 0, a)
            /\ cat_replicas' = IF a = "ok" THEN cat_replicas \cup {FileDid(f)}
                               ELSE cat_replicas
            /\ UNCHANGED <<cat_datasets, cat_files, argVars, prev, dataset_info>>
            /\ LET results == SetResult(registration_results, f.lfn, ReplicaAccepted(a))
                   tracked == IF ReplicaAccepted(a)
                              THEN registered_files \cup {FileDid(f)}
                              ELSE registered_files
                   j == NextRetry(file_infos, idx + 1, hi, results)
               IN IF j = 0
                  THEN AfterBatch(results, tracked, Len(calls'))
                  ELSE /\ idx' = j
                       /\ registration_results' = results
                       /\ registered_files' = tracked
                       /\ UNCHANGED <<pc, file_infos, batch_size, batch_start, result, ret,
                                      outcome, mark_count, created_datasets, create_returns>>

(***************************************************************************)
(* add_files_to_dataset.                                                   *)
(***************************************************************************)
\* The loop moves to the next batch, or returns True: to the caller, or to
\* _add_files_to_dataset, which sets files_added_to_dataset
AfterAttachBatch ==
    /\ UNCHANGED <<file_infos, registration_results, batch_size,
                   mark_count, trackVars, create_returns>>
    /\ idx' = 0
    /\ IF BatchEnd(file_infos, batch_start, batch_size) < Len(file_infos)
       THEN /\ batch_start' = batch_start + batch_size
            /\ pc' = "add_files_to_dataset"
            /\ UNCHANGED <<result, ret, outcome>>
       ELSE IF op = "add_files_to_dataset"
       THEN /\ batch_start' = 1
            /\ pc' = "done" /\ outcome' = "returned" /\ ret' = "True"
            /\ UNCHANGED result
       ELSE /\ batch_start' = 1
            /\ pc' = "close_dataset"
            /\ result' = [result EXCEPT !.files_added_to_dataset = Len(file_infos)]
            /\ UNCHANGED <<ret, outcome>>

\* add_files_to_dataset raised FileRegistrationError
AttachRaises(a, now) ==
    /\ UNCHANGED <<regVars, trackVars, create_returns>>
    /\ IF op = "add_files_to_dataset"
       THEN /\ pc' = "done" /\ outcome' = "raised" /\ ret' = "FileRegistrationError"
            /\ UNCHANGED <<result, mark_count>>
       ELSE WorkflowFails(result, "Failed to add files to dataset",
                          <<"add_files_to_dataset", a>>, now, mark_count)

\* add_files_to_dataset: client.add_files_to_dataset for the whole batch
AddFilesToDataset ==
    /\ pc = "add_files_to_dataset"
    /\ LET lo == batch_start
           hi == BatchEnd(file_infos, batch_start, batch_size)
           batch == SubSeq(file_infos, lo, hi)
       IN \E a \in Answers("add_files_to_dataset") :
            /\ Possible("add_files_to_dataset", dataset_info, a)
            /\ Issue("add_files_to_dataset", dataset_info,
                     [i \in 1..Len(batch) |-> FileDid(batch[i])], "-", 0, a)
            /\ cat_files' = IF a = "ok"
                            THEN CatAddFiles(cat_files, dataset_info, FileDids(batch))
                            ELSE cat_files
            /\ UNCHANGED <<cat_datasets, cat_replicas, argVars, prev, dataset_info>>
            /\ CASE a = "ok" -> AfterAttachBatch
                 [] a = "already_exists" ->
                      /\ idx' = lo
                      /\ pc' = "add_file_to_dataset"
                      /\ UNCHANGED <<file_infos, registration_results, batch_size,
                                     batch_start, result, ret, outcome, mark_count,
                                     trackVars, create_returns>>
                 [] OTHER -> AttachRaises(a, Len(calls'))

\* add_files_to_dataset, after `except FileAlreadyExists`: one file alone
AddFileToDataset ==
    /\ pc = "add_file_to_dataset"
    /\ LET f == file_infos[idx]
           hi == BatchEnd(file_infos, batch_start, batch_size)
       IN \E a \in Answers("add_files_to_dataset") :
            /\ Possible("add_files_to_dataset", dataset_info, a)
            /\ Issue("add_files_to_dataset", dataset_info, <<FileDid(f)>>, "-", 0, a)
            /\ cat_files' = IF a = "ok"
                            THEN CatAddFiles(cat_files, dataset_info, {FileDid(f)})
                            ELSE cat_files
            /\ UNCHANGED <<cat_datasets, cat_replicas, argVars, prev, dataset_info>>
            /\ IF AttachAccepted(a)
               THEN IF idx < hi
                    THEN /\ idx' = idx + 1
                         /\ UNCHANGED <<pc, file_infos, registration_results, batch_size,
                                        batch_start, result, ret, outcome, mark_count,
                                        trackVars, create_returns>>
                    ELSE AfterAttachBatch
               ELSE AttachRaises(a, Len(calls'))

(***************************************************************************)
(* close_dataset, the cleanup, verify_workflow_completion.                 *)
(***************************************************************************)
\* close_dataset: client.set_status(open=False); in a workflow run
\* _close_dataset and mark_complete(success=True) follow
SetStatusClosed ==
    /\ pc = "close_dataset"
    /\ \E a \in Answers("set_status") :
        /\ Possible("set_status", dataset_info, a)
        /\ Issue("set_status", dataset_info, <<>>, "False", 0, a)
        /\ cat_datasets' = IF a = "ok" THEN CatSetStatus(cat_datasets, dataset_info, FALSE)
                           ELSE cat_datasets
        /\ UNCHANGED <<cat_files, cat_replicas, argVars, prev, dataset_info, regVars,
                       trackVars, create_returns>>
        /\ IF op = "execute_workflow"
           THEN IF CloseAccepted(a)
                THEN /\ result' = MarkComplete([result EXCEPT !.dataset_closed = TRUE],
                                               TRUE, Len(calls'))
                     /\ mark_count' = mark_count + 1
                     /\ pc' = "done" /\ outcome' = "returned" /\ ret' = "WorkflowResult"
                ELSE WorkflowFails(result, "Failed to close dataset",
                                   <<"set_status", a>>, Len(calls'), mark_count)
           ELSE /\ UNCHANGED <<result, mark_count>>
                /\ pc' = "done"
                /\ IF CloseAccepted(a)
                   THEN outcome' = "returned" /\ ret' = "True"
                   ELSE outcome' = "raised" /\ ret' = "DatasetError"

\* _cleanup_on_failure: delete_dataset(grace_period_hours=1), that is
\* client.set_metadata(key="lifetime", value=3600); execute_workflow returns
Cleanup ==
    /\ pc = "cleanup"
    /\ \E a \in Answers("set_metadata") :
        /\ Possible(DeleteDatasetCall, dataset_info, a)
        /\ Issue(DeleteDatasetCall, dataset_info, <<>>, "-", CleanupGraceHours * SecondsPerHour, a)
        /\ cat_datasets' = IF a = "ok"
                           THEN CatSetMetadata(cat_datasets, dataset_info,
                                               CleanupGraceHours * SecondsPerHour)
                           ELSE cat_datasets
        /\ created_datasets' = IF a = "ok" THEN created_datasets \ {dataset_info}
                               ELSE created_datasets
        /\ result' = AfterCleanup(result, a)
        /\ outcome' = CleanupOutcome(a)
        /\ ret' = IF CleanupOutcome(a) = "returned" THEN "WorkflowResult" ELSE "DatasetError"
        /\ pc' = "done"
        /\ UNCHANGED <<cat_files, cat_replicas, argVars, prev, dataset_info, regVars,
                       registered_files, create_returns, mark_count>>

\* verify_workflow_completion: get_dataset_metadata (client.get_metadata)
VerifyMetadata ==
    /\ pc = "verify_metadata"
    /\ \E a \in Answers("get_metadata") :
        /\ Possible("get_metadata", dataset_info, a)
        /\ Issue("get_metadata", dataset_info, <<>>, "-", 0, a)
        /\ UNCHANGED <<catVars, argVars, prev, dataset_info, result, mark_count, regVars,
                       trackVars, create_returns>>
        /\ IF a = "ok" /\ StateOf(CatGetMetadata(cat_datasets, dataset_info)) = "closed"
           THEN pc' = "verify_count" /\ UNCHANGED <<outcome, ret>>
           ELSE pc' = "done" /\ outcome' = "returned" /\ ret' = "False"

\* verify_workflow_completion: get_dataset_count (client.list_files)
VerifyCount ==
    /\ pc = "verify_count"
    /\ \E a \in Answers("list_files") :
        /\ Possible("list_files", dataset_info, a)
        /\ Issue("list_files", dataset_info, <<>>, "-", 0, a)
        /\ UNCHANGED <<catVars, argVars, prev, dataset_info, result, mark_count, regVars,
                       trackVars, create_returns>>
        /\ pc' = "done"
        /\ outcome' = "returned"
        /\ ret' = CASE a = "ok" ->
                         PyBool(Cardinality(CatListFiles(cat_files, dataset_info))
                                    = expected_file_count)
                    [] a = "not_found" -> PyBool(0 = expected_file_count)
                    [] OTHER -> "False"

(***************************************************************************)
(* The specification.                                                      *)
(***************************************************************************)
Next ==
    \/ \E n \in DatasetNames, sc \in ScopeChoices, fs \in FileLists,
          lt \in LifetimeChoices :
          ExecuteWorkflow(n, sc, fs, lt, WorkflowBatchSize)
    \/ \E n \in DatasetNames, lt \in LifetimeChoices : CreateDataset(n, lt)
    \/ \E n \in DatasetNames : CloseDataset(n)
    \/ \E n \in DatasetNames, k \in 0..MaxFiles : VerifyWorkflowCompletion(n, k)
    \/ AddDataset
    \/ SetLifetime
    \/ GetMetadata
    \/ SetStatusOpen
    \/ AddReplicas
    \/ RegisterFileReplica
    \/ AddFilesToDataset
    \/ AddFileToDataset
    \/ SetStatusClosed
    \/ Cleanup
    \/ VerifyMetadata
    \/ VerifyCount

Spec == Init /\ [][Next]_vars

(***************************************************************************)
(* Two consecutive runs on one orchestrator: the first with the default     *)
(* batch_size and no lifetime, the second with the arguments of the first   *)
(* and any batch_size; the catalog answers the calls of the second run as   *)
(* it answered those of the first.                                          *)
(***************************************************************************)
BatchSizeArgs == {1, WorkflowBatchSize}
RunFileLists == SeqsUpTo({FileItem(F1, "s1"), FileItem(F2, "s1")}, MaxFiles)

RunsInit ==
    /\ pc = "idle"
    /\ op = "none"
    /\ nops = 0
    /\ dataset_name = <<>>
    /\ dataset_scope = None
    /\ strip_slash = FALSE
    /\ rse = None
    /\ grace_period_hours = None
    /\ metadata = None
    /\ batch_size_arg = WorkflowBatchSize
    /\ first_run = None
    /\ responses = <<>>
    /\ files = <<>>
    /\ lifetime_days = None
    /\ expected_file_count = 0
    /\ dataset_info = NoDid
    /\ result = "none"
    /\ file_infos = <<>>
    /\ registration_results = EmptyFn
    /\ batch_size = RegisterBatchSize
    /\ batch_start = 1
    /\ idx = 0
    /\ ret = "None"
    /\ outcome = "returned"
    /\ calls = <<>>
    /\ answer = "-"
    /\ add_dataset_answer = "-"
    /\ all_ok = TRUE
    /\ accepted = {}
    /\ acknowledged = {}
    /\ created_datasets = {}
    /\ registered_files = {}
    /\ create_returns = <<>>
    /\ prev = [op |-> "none", all_ok |-> TRUE, returned |-> TRUE]
    /\ mark_count = 0
    /\ cat_datasets \in InitialDatasets
    /\ cat_files = EmptyFn
    /\ cat_replicas = {}

\* The caller of RunsSpec: a second execute_workflow on the orchestrator
\* that has finished one
CanRunAgain == pc = "done" /\ op = "execute_workflow" /\ nops = 1

\* execute_workflow again: `result = WorkflowResult()` replaces
\* current_workflow, the managers and their tracking sets stay
ExecuteWorkflowAgain(bs) ==
    /\ CanRunAgain
    /\ first_run' = Some([batch_size |-> batch_size_arg, responses |-> responses,
                          calls |-> calls, result |-> result,
                          created_datasets |-> created_datasets,
                          registered_files |-> registered_files])
    /\ StartWorkflow(dataset_name, dataset_scope, files, lifetime_days, bs)

RunsNext ==
    \/ \E fs \in RunFileLists :
          ExecuteWorkflow(ValidName, None, fs, None, WorkflowBatchSize)
    \/ \E bs \in BatchSizeArgs : ExecuteWorkflowAgain(bs)
    \/ AddDataset
    \/ GetMetadata
    \/ SetStatusOpen
    \/ AddReplicas
    \/ RegisterFileReplica
    \/ AddFilesToDataset
    \/ AddFileToDataset
    \/ SetStatusClosed
    \/ Cleanup

RunsSpec == RunsInit /\ [][RunsNext]_vars

(***************************************************************************)
(* RucioUtils.extract_scope alone: it is called on an identifier drawn     *)
(* from the strings of at most MaxIdLen characters over IdChars, bare or   *)
(* after "user" or "group", with strip_slash either way.                   *)
(***************************************************************************)
IdChars == {"u", ".", ":", " ", "/"}
Identifiers ==
    { p \o t : p \in {<<>>, <<"u","s","e","r">>, <<"g","r","o","u","p">>},
                t \in SeqsUpTo(IdChars, MaxIdLen) }

ScopeInit ==
    /\ pc = "extract_scope"
    /\ op = "extract_scope"
    /\ nops = 1
    /\ dataset_name \in Identifiers
    /\ dataset_scope = None
    /\ strip_slash \in BOOLEAN
    /\ rse = None
    /\ grace_period_hours = None
    /\ metadata = None
    /\ batch_size_arg = WorkflowBatchSize
    /\ first_run = None
    /\ responses = NotRecorded
    /\ files = <<>>
    /\ lifetime_days = None
    /\ expected_file_count = 0
    /\ dataset_info = NoDid
    /\ result = "none"
    /\ file_infos = <<>>
    /\ registration_results = EmptyFn
    /\ batch_size = RegisterBatchSize
    /\ batch_start = 1
    /\ idx = 0
    /\ ret = "None"
    /\ outcome = "running"
    /\ calls = <<>>
    /\ answer = "-"
    /\ add_dataset_answer = "-"
    /\ all_ok = TRUE
    /\ accepted = {}
    /\ acknowledged = {}
    /\ created_datasets = {}
    /\ registered_files = {}
    /\ create_returns = <<>>
    /\ prev = [op |-> "none", all_ok |-> TRUE, returned |-> TRUE]
    /\ mark_count = 0
    /\ cat_datasets = [x \in {} |-> [is_open |-> TRUE, lifetime |-> None, did_type |-> "DATASET"]]
    /\ cat_files = EmptyFn
    /\ cat_replicas = {}

\* RucioUtils.extract_scope(dataset_name, strip_slash): the pair returned,
\* or the ValidationError raised
ExtractScopeCall ==
    /\ pc = "extract_scope"
    /\ LET r == ExtractScopeWith(dataset_name, strip_slash) IN
        /\ dataset_info' = [scope |-> r.scope, name |-> r.name]
        /\ outcome' = IF r.ok THEN "returned" ELSE "raised"
        /\ ret' = IF r.ok THEN "Tuple" ELSE "ValidationError"
    /\ pc' = "done"
    /\ UNCHANGED <<argVars, regVars, trackVars, catVars, result, calls, responses, answer,
                   add_dataset_answer, all_ok, accepted, acknowledged,
                   create_returns, prev, mark_count>>

ScopeNext == ExtractScopeCall

ScopeSpec == ScopeInit /\ [][ScopeNext]_vars

(***************************************************************************)
(* The operations of FileManager and DatasetManager called directly, one   *)
(* operation on a manager that has run before: its tracking sets hold      *)
(* nothing or one identifier, and the catalog is as in Init.               *)
(***************************************************************************)
\* register_multiple_files, add_files_to_dataset: lists of FileInfo objects
FileInfoLists == SeqsUpTo(WellFormedItems, MaxFiles)
\* register_multiple_files: batch_size
BatchSizes == -1..MaxFiles
\* delete_dataset: grace_period_hours (the lifetime 0.0001 of an omitted
\* grace period is no integer and is left out)
GraceChoices == { Some(h) : h \in 0..MaxGraceHours }
\* attach_files: rse
RseChoices == {None, Some("RSE")}
\* attach_files: file dictionaries, with and without their keys
FileEntries ==
    { [scope |-> "s1", name |-> F1], [scope |-> "s2", name |-> F2],
      [scope |-> "s1"], [name |-> F1] }
FileEntryLists == SeqsUpTo(FileEntries, MaxFiles)

\* The catalog the manager operations find: as InitialDatasets, or with the
\* identifier naming a container, open or closed
ManagerDatasets ==
    InitialDatasets \cup
    { (ValidDid :> [is_open |-> o, lifetime |-> None, did_type |-> "CONTAINER"]) :
        o \in BOOLEAN }

ManagerInit ==
    /\ pc = "idle"
    /\ op = "none"
    /\ nops = 0
    /\ dataset_name = <<>>
    /\ dataset_scope = None
    /\ strip_slash = FALSE
    /\ rse = None
    /\ grace_period_hours = None
    /\ metadata = None
    /\ batch_size_arg = WorkflowBatchSize
    /\ first_run = None
    /\ responses = NotRecorded
    /\ files = <<>>
    /\ lifetime_days = None
    /\ expected_file_count = 0
    /\ dataset_info = NoDid
    /\ result = "none"
    /\ file_infos = <<>>
    /\ registration_results = EmptyFn
    /\ batch_size = RegisterBatchSize
    /\ batch_start = 1
    /\ idx = 0
    /\ ret = "None"
    /\ outcome = "returned"
    /\ calls = <<>>
    /\ answer = "-"
    /\ add_dataset_answer = "-"
    /\ all_ok = TRUE
    /\ accepted = {}
    /\ acknowledged = {}
    /\ created_datasets \in {{}, {ValidDid}}
    /\ registered_files \in {{}, {FileDid(FileItem(F1, "s1"))}}
    /\ create_returns = <<>>
    /\ prev = [op |-> "none", all_ok |-> TRUE, returned |-> TRUE]
    /\ mark_count = 0
    /\ cat_datasets \in ManagerDatasets
    /\ cat_files = EmptyFn
    /\ cat_replicas = {}

\* FileManager.register_multiple_files(files, rse, batch_size): range() raises
\* ValueError for a step of 0 and is empty for a negative one
RegisterMultipleFiles(fs, bs) ==
    /\ CanRun
    /\ Begin("register_multiple_files", dataset_name, fs, lifetime_days, expected_file_count)
    /\ dataset_scope' = None
    /\ rse' = None /\ grace_period_hours' = None
    /\ UNCHANGED <<batch_size_arg, first_run>>
    /\ dataset_info' = NoDid
    /\ file_infos' = fs
    /\ registration_results' = EmptyFn
    /\ batch_size' = bs
    /\ batch_start' = 1
    /\ idx' = 0
    /\ UNCHANGED <<result, mark_count, trackVars, create_returns>>
    /\ IF bs = 0
       THEN pc' = "done" /\ outcome' = "raised" /\ ret' = "ValueError"
       ELSE IF bs < 0 \/ fs = <<>>
       THEN pc' = "done" /\ outcome' = "returned" /\ ret' = "Dict"
       ELSE pc' = "add_replicas" /\ outcome' = "running" /\ ret' = "None"

\* FileManager.register_file_replica(file_info, rse, register_in_catalog)
RegisterFileReplicaAlone(f, register_in_catalog) ==
    /\ CanRun
    /\ Begin("register_file_replica", dataset_name, <<f>>, lifetime_days, expected_file_count)
    /\ dataset_scope' = None
    /\ rse' = None /\ grace_period_hours' = None
    /\ UNCHANGED <<batch_size_arg, first_run>>
    /\ dataset_info' = NoDid
    /\ file_infos' = <<f>>
    /\ registration_results' = EmptyFn
    /\ batch_start' = 1
    /\ idx' = 1
    /\ UNCHANGED <<batch_size, result, mark_count, created_datasets, create_returns>>
    /\ IF register_in_catalog
       THEN /\ pc' = "add_replica" /\ outcome' = "running" /\ ret' = "None"
            /\ UNCHANGED registered_files
       ELSE /\ registered_files' = registered_files \cup {FileDid(f)}
            /\ pc' = "done" /\ outcome' = "returned" /\ ret' = "True"

\* register_file_replica: client.add_replicas with the one record
AddReplicaAlone ==
    /\ pc = "add_replica"
    /\ LET f == file_infos[idx] IN
       \E a \in Answers("add_replicas") :
            /\ Possible("add_replicas", NoDid, a)
            /\ Issue("add_replicas", NoDid, <<FileDid(f)>>, "-", 0, a)
            /\ cat_replicas' = IF a = "ok" THEN cat_replicas \cup {FileDid(f)}
                               ELSE cat_replicas
            /\ UNCHANGED <<cat_datasets, cat_files, argVars, prev, dataset_info, regVars,
                           result, mark_count, created_datasets, create_returns>>
            /\ pc' = "done"
            /\ IF ReplicaAccepted(a)
               THEN /\ registered_files' = registered_files \cup {FileDid(f)}
                    /\ outcome' = "returned" /\ ret' = "True"
               ELSE /\ registered_files' = registered_files
                    /\ outcome' = "raised" /\ ret' = "FileRegistrationError"

\* FileManager.add_files_to_dataset(files, dataset_name) with FileInfo objects
AddFilesToDatasetAlone(n, fs) ==
    /\ CanRun
    /\ Begin("add_files_to_dataset", n, fs, lifetime_days, expected_file_count)
    /\ dataset_scope' = None
    /\ rse' = None /\ grace_period_hours' = None
    /\ UNCHANGED <<batch_size_arg, first_run>>
    /\ registration_results' = EmptyFn
    /\ batch_start' = 1
    /\ idx' = 0
    /\ UNCHANGED <<result, mark_count, trackVars, create_returns>>
    /\ LET r == ExtractScope(n) IN
       IF r.ok
       THEN /\ dataset_info' = [scope |-> r.scope, name |-> r.name]
            /\ file_infos' = fs
            /\ batch_size' = AttachBatchSize
            /\ IF fs = <<>>
               THEN pc' = "done" /\ outcome' = "returned" /\ ret' = "True"
               ELSE pc' = "add_files_to_dataset" /\ outcome' = "running" /\ ret' = "None"
       ELSE /\ dataset_info' = NoDid
            /\ UNCHANGED <<file_infos, batch_size>>
            /\ pc' = "done" /\ outcome' = "raised" /\ ret' = "FileRegistrationError"

\* DatasetManager.attach_files(dataset_name, files, rse=r)
AttachFiles(n, fs, r) ==
    /\ CanRun
    /\ Begin("attach_files", n, fs, lifetime_days, expected_file_count)
    /\ dataset_scope' = None
    /\ rse' = r
    /\ grace_period_hours' = None
    /\ UNCHANGED <<batch_size_arg, first_run>>
    /\ file_infos' = <<>>
    /\ registration_results' = EmptyFn
    /\ batch_start' = 1
    /\ idx' = 0
    /\ UNCHANGED <<batch_size, result, mark_count, trackVars, create_returns>>
    /\ LET d == ExtractScope(n) IN
       IF d.ok
       THEN /\ dataset_info' = [scope |-> d.scope, name |-> d.name]
            /\ pc' = "get_did" /\ outcome' = "running" /\ ret' = "None"
       ELSE /\ dataset_info' = NoDid
            /\ pc' = "done" /\ outcome' = "raised" /\ ret' = "DatasetError"

\* attach_files: client.get_did, then the file DIDs are prepared
GetDid ==
    /\ pc = "get_did"
    /\ \E a \in Answers("get_did") :
        /\ Possible("get_did", dataset_info, a)
        /\ Issue("get_did", dataset_info, <<>>, "-", 0, a)
        /\ UNCHANGED <<catVars, argVars, prev, dataset_info, registration_results,
                       batch_size, batch_start, result, mark_count, trackVars,
                       create_returns>>
        /\ IF DatasetFound(a) /\ \A j \in 1..Len(files) : EntryComplete(files[j])
           THEN /\ file_infos' = EntryDids(files)
                /\ UNCHANGED <<ret, outcome>>
                /\ IF rse # None /\ files # <<>>
                   THEN pc' = "list_replicas" /\ idx' = 1
                   ELSE pc' = "attach_dids" /\ idx' = 0
           ELSE /\ pc' = "done" /\ outcome' = "raised" /\ ret' = "DatasetError"
                /\ UNCHANGED <<file_infos, idx>>

\* attach_files, `if rse`: client.list_replicas for one file; an empty
\* answer and an exception are only logged
ListReplicas ==
    /\ pc = "list_replicas"
    /\ \E a \in Answers("list_replicas") :
        /\ Possible("list_replicas", NoDid, a)
        /\ Issue("list_replicas", NoDid, <<file_infos[idx]>>, "-", 0, a)
        /\ UNCHANGED <<catVars, argVars, prev, dataset_info, file_infos,
                       registration_results, batch_size, batch_start, result, ret,
                       outcome, mark_count, trackVars, create_returns>>
        /\ IF idx < Len(file_infos)
           THEN pc' = "list_replicas" /\ idx' = idx + 1
           ELSE pc' = "attach_dids" /\ idx' = 0

\* attach_files: client.attach_dids with all the file DIDs
AttachDids ==
    /\ pc = "attach_dids"
    /\ \E a \in Answers("attach_dids") :
        /\ Possible("attach_dids", dataset_info, a)
        /\ Issue("attach_dids", dataset_info, file_infos, "-", 0, a)
        /\ cat_files' = IF a = "ok"
                        THEN CatAddFiles(cat_files, dataset_info,
                                         { file_infos[j] : j \in 1..Len(file_infos) })
                        ELSE cat_files
        /\ UNCHANGED <<cat_datasets, cat_replicas, argVars, prev, dataset_info, regVars,
                       result, mark_count, trackVars, create_returns>>
        /\ pc' = "done"
        /\ IF a = "ok"
           THEN outcome' = "returned" /\ ret' = "Dict"
           ELSE outcome' = "raised" /\ ret' = "DatasetError"

\* DatasetManager.delete_dataset(dataset_name, grace_period_hours=h)
DeleteDataset(n, h) ==
    /\ CanRun
    /\ Begin("delete_dataset", n, files, lifetime_days, expected_file_count)
    /\ dataset_scope' = None
    /\ rse' = None
    /\ grace_period_hours' = h
    /\ UNCHANGED <<batch_size_arg, first_run>>
    /\ UNCHANGED <<regVars, result, mark_count, trackVars, create_returns>>
    /\ LET d == ExtractScope(n) IN
       IF d.ok
       THEN /\ dataset_info' = [scope |-> d.scope, name |-> d.name]
            /\ pc' = "delete_dataset" /\ outcome' = "running" /\ ret' = "None"
       ELSE /\ dataset_info' = NoDid
            /\ pc' = "done" /\ outcome' = "raised" /\ ret' = "DatasetError"

\* delete_dataset: client.set_metadata(key="lifetime"); the identifier leaves
\* the tracking set only after a call that did not raise
SetDeletionLifetime ==
    /\ pc = "delete_dataset"
    /\ \E a \in Answers(DeleteDatasetCall) :
        /\ Possible(DeleteDatasetCall, dataset_info, a)
        /\ Issue(DeleteDatasetCall, dataset_info, <<>>, "-",
                 DeletionLifetime(grace_period_hours[1]), a)
        /\ cat_datasets' = IF a = "ok"
                           THEN CatSetMetadata(cat_datasets, dataset_info,
                                               DeletionLifetime(grace_period_hours[1]))
                           ELSE cat_datasets
        /\ created_datasets' = IF a = "ok" THEN created_datasets \ {dataset_info}
                               ELSE created_datasets
        /\ UNCHANGED <<cat_files, cat_replicas, argVars, prev, dataset_info, regVars,
                       result, mark_count, registered_files, create_returns>>
        /\ pc' = "done"
        /\ IF DeleteAccepted(a)
           THEN outcome' = "returned" /\ ret' = "True"
           ELSE outcome' = "raised" /\ ret' = "DatasetError"

\* DatasetManager.get_dataset_metadata(dataset_name): extract_scope, whose
\* ValidationError the outer `except Exception` turns into DatasetError
GetDatasetMetadata(n) ==
    /\ CanInspect
    /\ Begin("get_dataset_metadata", n, files, lifetime_days, expected_file_count)
    /\ dataset_scope' = None
    /\ rse' = None /\ grace_period_hours' = None
    /\ UNCHANGED <<batch_size_arg, first_run>>
    /\ UNCHANGED <<result, mark_count, regVars, trackVars, create_returns>>
    /\ LET r == ExtractScope(n) IN
       IF r.ok
       THEN /\ dataset_info' = [scope |-> r.scope, name |-> r.name]
            /\ pc' = "get_dataset_metadata" /\ outcome' = "running" /\ ret' = "None"
       ELSE /\ dataset_info' = NoDid
            /\ pc' = "done" /\ outcome' = "raised" /\ ret' = "DatasetError"

\* get_dataset_metadata: client.get_metadata; the dictionary is returned
\* with its derived state, `except DataIdentifierNotFound` returns None, any
\* other exception is raised as DatasetError
GetMetadataAlone ==
    /\ pc = "get_dataset_metadata"
    /\ \E a \in Answers("get_metadata") :
        /\ Possible("get_metadata", dataset_info, a)
        /\ Issue("get_metadata", dataset_info, <<>>, "-", 0, a)
        /\ UNCHANGED <<catVars, op, nops, dataset_name, dataset_scope, strip_slash, rse,
                       grace_period_hours, batch_size_arg, first_run, files, lifetime_days,
                       expected_file_count, prev, dataset_info, result, mark_count, regVars, trackVars,
                       create_returns>>
        /\ pc' = "done"
        /\ CASE a = "ok" ->
                  LET md == CatGetMetadata(cat_datasets, dataset_info) IN
                  /\ metadata' = Some([is_open |-> md.is_open, did_type |-> md.did_type,
                                       lifetime |-> md.lifetime, state |-> StateOf(md)])
                  /\ outcome' = "returned" /\ ret' = "Dict"
             [] a = "not_found" ->
                  /\ metadata' = None
                  /\ outcome' = "returned" /\ ret' = "None"
             [] OTHER ->
                  /\ metadata' = None
                  /\ outcome' = "raised" /\ ret' = "DatasetError"

\* The caller of ManagerSpec: one operation, which get_dataset_metadata may
\* follow
ManagerNext ==
    \/ \E n \in DatasetNames, lt \in LifetimeChoices : CanRun /\ CreateDataset(n, lt)
    \/ \E n \in DatasetNames : CanRun /\ CloseDataset(n)
    \/ \E n \in DatasetNames : GetDatasetMetadata(n)
    \/ AddDataset
    \/ SetLifetime
    \/ GetMetadata
    \/ SetStatusOpen
    \/ SetStatusClosed
    \/ GetMetadataAlone
    \/ \E fs \in FileInfoLists, bs \in BatchSizes : RegisterMultipleFiles(fs, bs)
    \/ \E f \in WellFormedItems, c \in BOOLEAN : RegisterFileReplicaAlone(f, c)
    \/ \E n \in DatasetNames, fs \in FileInfoLists : AddFilesToDatasetAlone(n, fs)
    \/ \E n \in DatasetNames, fs \in FileEntryLists, r \in RseChoices : AttachFiles(n, fs, r)
    \/ \E n \in DatasetNames, h \in GraceChoices : DeleteDataset(n, h)
    \/ AddReplicas
    \/ RegisterFileReplica
    \/ AddReplicaAlone
    \/ AddFilesToDataset
    \/ AddFileToDataset
    \/ GetDid
    \/ ListReplicas
    \/ AttachDids
    \/ SetDeletionLifetime

ManagerSpec == ManagerInit /\ [][ManagerNext]_vars

(***************************************************************************)
(* ValidationUtils.validate_checksum alone: it is called on a prefix       *)
(* followed by a run of at most MaxHashLen equal hexadecimal characters,   *)
(* in which the first or the last character may be replaced by one that is *)
(* not hexadecimal.                                                        *)
(***************************************************************************)
ChecksumPrefixes ==
    { <<>>, Md5Prefix, AdlerPrefix, <<"m","d","5">>, <<"a","d">>,
      <<"M","D","5",":">>, <<"s","h","a",":">> }
HexSamples == {"a", "F", "9"}
NonHexSamples == {"g", ":", " ", Newline}
HashRuns == { Repeat(c, n) : c \in HexSamples, n \in 0..MaxHashLen }
HashTexts ==
    HashRuns \cup
    UNION { { [r EXCEPT ![k] = d] : k \in {1, Len(r)}, d \in NonHexSamples } :
                r \in HashRuns \ {<<>>} }
        \cup
    { Append(r, d) : r \in HashRuns, d \in NonHexSamples }
Checksums == { p \o t : p \in ChecksumPrefixes, t \in HashTexts }

ChecksumInit ==
    /\ pc = "validate_checksum"
    /\ op = "validate_checksum"
    /\ nops = 1
    /\ dataset_name = <<>>
    /\ dataset_scope = None
    /\ strip_slash = FALSE
    /\ rse = None
    /\ grace_period_hours = None
    /\ metadata = None
    /\ batch_size_arg = WorkflowBatchSize
    /\ first_run = None
    /\ responses = NotRecorded
    /\ files \in { <<[FileItem(F1, "s1") EXCEPT !.checksum = c]>> : c \in Checksums }
    /\ lifetime_days = None
    /\ expected_file_count = 0
    /\ dataset_info = NoDid
    /\ result = "none"
    /\ file_infos = <<>>
    /\ registration_results = EmptyFn
    /\ batch_size = RegisterBatchSize
    /\ batch_start = 1
    /\ idx = 0
    /\ ret = "None"
    /\ outcome = "running"
    /\ calls = <<>>
    /\ answer = "-"
    /\ add_dataset_answer = "-"
    /\ all_ok = TRUE
    /\ accepted = {}
    /\ acknowledged = {}
    /\ created_datasets = {}
    /\ registered_files = {}
    /\ create_returns = <<>>
    /\ prev = [op |-> "none", all_ok |-> TRUE, returned |-> TRUE]
    /\ mark_count = 0
    /\ cat_datasets = [x \in {} |-> [is_open |-> TRUE, lifetime |-> None, did_type |-> "DATASET"]]
    /\ cat_files = EmptyFn
    /\ cat_replicas = {}

\* ValidationUtils.validate_checksum(checksum): True, or the ValidationError
ValidateChecksumCall ==
    /\ pc = "validate_checksum"
    /\ LET ok == ValidateChecksum(files[1].checksum) IN
        /\ outcome' = IF ok THEN "returned" ELSE "raised"
        /\ ret' = IF ok THEN "True" ELSE "ValidationError"
    /\ pc' = "done"
    /\ UNCHANGED <<argVars, regVars, trackVars, catVars, dataset_info, result, calls, responses,
                   answer, add_dataset_answer, all_ok, accepted, acknowledged,
                   create_returns, prev, mark_count>>

ChecksumNext == ValidateChecksumCall

ChecksumSpec == ChecksumInit /\ [][ChecksumNext]_vars

(***************************************************************************)
(* Properties of execute_workflow, register_multiple_files, close_dataset  *)
(* and create_dataset.                                                     *)
(***************************************************************************)
InWorkflow == op = "execute_workflow"
Finished == pc = "done"
LastCall == calls[Len(calls)]
GraceSeconds == CleanupGraceHours * SecondsPerHour

\* The step a catalog call belongs to: 1 create (add_dataset, the lifetime,
\* the state query, the reopening), 2 register, 3 attach, 4 close, 5 cleanup
StepOf(c) ==
    CASE c.call = "add_dataset" -> 1
      [] c.call = "get_metadata" -> 1
      [] c.call = "set_status" /\ c.open = "True" -> 1
      [] c.call = "set_metadata" /\ c.value # GraceSeconds -> 1
      [] c.call = "add_replicas" -> 2
      [] c.call = "add_files_to_dataset" -> 3
      [] c.call = "set_status" /\ c.open = "False" -> 4
      [] c.call = "set_metadata" /\ c.value = GraceSeconds -> 5
      [] OTHER -> 0

CallsOfStep(k) == { i \in 1..Len(calls) : StepOf(calls[i]) = k }

\* This step of the run issued a catalog call
IssuedCall == InWorkflow /\ op' = op /\ Len(calls') = Len(calls) + 1

\* The call this step issued got an answer the step it belongs to does not
\* survive: add_dataset, an attach call or the close call answered with an
\* error other than the tolerated ones
FatalAnswer ==
    /\ IssuedCall
    /\ \/ pc = "add_dataset" /\ answer' = "error"
       \/ pc \in {"add_files_to_dataset", "add_file_to_dataset"} /\ answer' = "error"
       \/ pc = "close_dataset" /\ answer' = "error"

\* The input of C3: a name create_dataset resolves, at least one record, all
\* records well formed, logical names pairwise distinct
GoodInput ==
    /\ ResolveScoped(dataset_name, dataset_scope).ok
    /\ Len(files) >= 1
    /\ \A i \in 1..Len(files) : Convertible(files[i])
    /\ \A i, j \in 1..Len(files) : i # j => files[i].lfn # files[j].lfn

FailedAtRegistration ==
    /\ result.errors # <<>>
    /\ result.errors[1][1] = "Failed to register files"

\* ----- C1 ---------------------------------------------------------------
C1_Order ==
    InWorkflow =>
        \A i, j \in 1..Len(calls) : i < j => StepOf(calls[i]) <= StepOf(calls[j])

C1_Gate ==
    IssuedCall =>
        LET k == StepOf(calls'[Len(calls')]) IN
        /\ k \in 1..5
        /\ k \in 1..4 => result.errors = <<>> /\ result.end_time = None
        /\ k >= 2 => result.dataset_created /\ CallsOfStep(1) # {}
        /\ k \in 3..4 => result.files_registered >= 1 /\ CallsOfStep(2) # {}
        /\ k = 4 => /\ result.files_added_to_dataset = Len(file_infos)
                    /\ CallsOfStep(3) # {}

C1_Stop == FatalAnswer => result'.errors # <<>> /\ pc' \in {"cleanup", "done"}

\* C1: in a run of execute_workflow the catalog calls come in the step order
\* create, register, attach, close (then the cleanup): the steps of the calls
\* issued so far never decrease; a call of a step is issued only while the
\* run has recorded no error and the step before it has completed (the
\* dataset created, at least one file registered, the files attached); and a
\* fatal answer records an error and ends the steps, whatever the catalog
\* answers.
C1_StepOrder == [](C1_Order) /\ [][C1_Gate /\ C1_Stop]_vars

\* A run that issued calls of all four steps
C1_Witness ==
    InWorkflow /\ Finished /\ \A k \in 1..4 : CallsOfStep(k) # {}

\* ----- C2 ---------------------------------------------------------------
C2_Returns ==
    InWorkflow =>
        /\ outcome # "raised"
        /\ Finished =>
              /\ outcome = "returned" /\ ret = "WorkflowResult"
              /\ result.end_time # None
              /\ mark_count = 1
              /\ ~result.success => result.errors # <<>>

C2_Fails ==
    FatalAnswer =>
        /\ ~result'.success
        /\ result'.end_time # None
        /\ result'.errors # <<>>
        /\ outcome' # "raised"

C2_CleanupReturns ==
    (InWorkflow /\ pc = "cleanup" /\ pc' # pc) =>
        /\ pc' = "done" /\ outcome' = "returned" /\ ret' = "WorkflowResult"
        /\ ~result'.success /\ result'.end_time # None /\ result'.errors # <<>>

C3_HappyPath ==
    /\ (InWorkflow /\ Finished /\ all_ok /\ GoodInput) =>
          /\ result.success
          /\ result.dataset_created
          /\ result.files_registered = Len(files)
          /\ result.files_added_to_dataset = Len(files)
          /\ result.dataset_closed
          /\ result.errors = <<>>
    /\ (/\ op = "verify_workflow_completion" /\ Finished
        /\ prev.op = "execute_workflow" /\ prev.all_ok
        /\ all_ok /\ GoodInput
        /\ expected_file_count = Len(files)) => ret = "True"

\* The verification of an all-success run with two records returned True
C3_Witness ==
    /\ op = "verify_workflow_completion" /\ Finished
    /\ prev.op = "execute_workflow" /\ prev.all_ok
    /\ all_ok /\ GoodInput
    /\ Len(files) = 2 /\ expected_file_count = 2
    /\ result.success /\ result.files_added_to_dataset = 2
    /\ ret = "True"

\* ----- C4 ---------------------------------------------------------------
\* C4: a run that got past the creation of the dataset fails in the
\* registration step exactly when no record was registered (no batch call
\* was answered with success and no individual call with success or
\* "already exists"): with one record registered the run
\* goes on to the attach step even when other records failed; with none the
\* result is finalized as failed, carries the message "Failed to register
\* files: No files were successfully registered", and the run issues no
\* add_files_to_dataset call and no close call.
C4_RegistrationGate ==
    InWorkflow =>
        /\ pc \in {"add_files_to_dataset", "add_file_to_dataset", "close_dataset"} =>
              /\ result.files_registered >= 1
              /\ acknowledged # {}
              /\ result.errors = <<>>
        /\ (pc \in {"cleanup", "done"} /\ result.dataset_created) =>
              /\ FailedAtRegistration <=> acknowledged = {}
              /\ FailedAtRegistration <=> result.files_registered = 0
              /\ ~FailedAtRegistration => CallsOfStep(3) # {}
              /\ FailedAtRegistration =>
                    /\ ~result.success
                    /\ result.end_time # None
                    /\ CallsOfStep(3) = {} /\ CallsOfStep(4) = {}
                    /\ (\A i \in 1..Len(files) : Convertible(files[i])) =>
                          result.errors[1] =
                              <<"Failed to register files",
                                "No files were successfully registered">>

\* One record failed, another was registered, and the run is at the attach step
C4_Witness ==
    /\ InWorkflow /\ pc = "add_files_to_dataset"
    /\ \E l \in DOMAIN registration_results : registration_results[l]
    /\ \E l \in DOMAIN registration_results : ~registration_results[l]

\* ----- C5 ---------------------------------------------------------------
C5_CleanupCalls ==
    InWorkflow =>
        IF Finished /\ ~result.success /\ result.dataset_created
        THEN /\ CallsOfStep(5) = {Len(calls)}
             /\ LastCall.did = dataset_info
             /\ result.dataset_info[1].scope = LastCall.did.scope
             /\ result.dataset_info[1].name = LastCall.did.name
        ELSE CallsOfStep(5) = {}

C5_AfterFailure ==
    (IssuedCall /\ StepOf(calls'[Len(calls')]) = 5) =>
        /\ ~result.success
        /\ result.end_time # None
        /\ result.errors # <<>>
        /\ result.dataset_created

\* C5: a failed run issues the cleanup call - set_metadata(lifetime, 3600
\* seconds) on the dataset the run created - exactly once, as its last
\* call and after the result was finalized as failed, when dataset_created
\* is true; a failed run whose dataset was not created, a successful run
\* and a run still in its steps have issued no such call.
C5_CleanupIffCreated == [](C5_CleanupCalls) /\ [][C5_AfterFailure]_vars

\* A failed run with the dataset created and its one cleanup call
C5_Witness ==
    /\ InWorkflow /\ Finished
    /\ ~result.success /\ result.dataset_created
    /\ CallsOfStep(5) # {}

\* ----- C6 ---------------------------------------------------------------
\* C6: the step that issues the cleanup call leaves the finalized
\* WorkflowResult as it was and returns it, for every answer to the call:
\* success, errors, the counters and end_time do not depend on the answer,
\* and no exception reaches the caller.
C6_CleanupFailureContained ==
    [][(InWorkflow /\ pc = "cleanup" /\ pc' # pc) =>
          /\ result' = result
          /\ mark_count' = mark_count
          /\ outcome' = "returned"
          /\ ret' = "WorkflowResult"]_vars

\* The cleanup call of a failed run failed
C6_Witness ==
    /\ InWorkflow /\ Finished
    /\ Len(calls) >= 1 /\ StepOf(LastCall) = 5
    /\ answer = "error"

\* ----- C7 ---------------------------------------------------------------
\* The add_replicas calls of the run, in order: the batch call first, the
\* individual calls of the fallback after it
ReplicaCalls == SelectSeq(calls, LAMBDA c : c.call = "add_replicas")
RegistrationOver ==
    /\ InWorkflow
    /\ pc \in {"add_files_to_dataset", "add_file_to_dataset", "close_dataset",
               "cleanup", "done"}
    /\ CallsOfStep(2) # {}

\* C7 (as claimed): when the batch call of register_multiple_files failed,
\* every record of the batch was retried individually, and the success map
\* returned has one entry per input record, repeated logical names included.
C7_EveryRecordRetried ==
    (RegistrationOver /\ Len(ReplicaCalls) >= 2) =>
        /\ Len(ReplicaCalls) = 1 + Len(files)
        /\ \A i \in 1..Len(files) : ReplicaCalls[1 + i].files = <<FileDid(files[i])>>
        /\ Cardinality(DOMAIN registration_results) = Len(files)

\* ----- C8 ---------------------------------------------------------------
\* C8 (as claimed): every record sent in an add_files_to_dataset call is a
\* record that an add_replicas call carried and the catalog accepted or
\* answered "already exists".
C8_OnlyRegisteredAttached ==
    InWorkflow =>
        \A i \in CallsOfStep(3) :
            \A k \in 1..Len(calls[i].files) : calls[i].files[k] \in accepted

\* ----- C9 ---------------------------------------------------------------
CloseStep == InWorkflow /\ pc = "close_dataset" /\ pc' # pc

\* C9 (as claimed): whatever the catalog answers to the close call, the run
\* is finalized with success and dataset_closed and no cleanup follows.
C9_CloseNeverFails ==
    [][CloseStep =>
          /\ pc' = "done"
          /\ result'.success
          /\ result'.dataset_closed]_vars

\* C9 (amended): the close call answered with success, "not found" or
\* "unsupported operation" finalizes the run with success and
\* dataset_closed and no cleanup follows; any other error finalizes it as
\* failed with "Failed to close dataset" recorded, dataset_closed false,
\* and the cleanup follows.
C9_CloseTolerance ==
    [][CloseStep =>
          IF answer' \in {"ok", "not_found", "unsupported"}
          THEN /\ pc' = "done" /\ outcome' = "returned"
               /\ result'.success
               /\ result'.dataset_closed
               /\ result'.errors = <<>>
          ELSE /\ pc' = "cleanup"
               /\ ~result'.success
               /\ ~result'.dataset_closed
               /\ result'.end_time # None
               /\ result'.errors[1][1] = "Failed to close dataset"]_vars

\* A run whose close call was answered "unsupported operation" succeeded
C9_Witness ==
    /\ InWorkflow /\ Finished
    /\ Len(calls) >= 1 /\ StepOf(LastCall) = 4
    /\ answer = "unsupported"
    /\ result.success /\ result.dataset_closed

\* ----- C10 --------------------------------------------------------------
\* create_dataset finished, it was not this manager's first create_dataset
\* for the dataset, and the catalog answered "already exists" to add_dataset
SecondCreate ==
    /\ op = "create_dataset" /\ Finished
    /\ add_dataset_answer = "already_exists"
    /\ dataset_info \in created_datasets
    /\ Len(create_returns) >= (IF outcome = "returned" THEN 2 ELSE 1)

SameReturns ==
    \A i, j \in 1..Len(create_returns) :
        create_returns[i].arg = create_returns[j].arg =>
            /\ create_returns[i].info.scope = create_returns[j].info.scope
            /\ create_returns[i].info.name = create_returns[j].info.name
            /\ create_returns[i].info.vuid = create_returns[j].info.vuid

DatasetOpen ==
    dataset_info \in DOMAIN cat_datasets /\ cat_datasets[dataset_info].is_open

\* C10 (as claimed): the second create_dataset never raises, leaves the
\* dataset OPEN in the catalog, and returns what the first returned.
C10_SecondCreateOpens ==
    SecondCreate => outcome = "returned" /\ DatasetOpen /\ SameReturns

C10_Returns ==
    SecondCreate =>
        /\ outcome = "returned" /\ ret = "DatasetInfo"
        /\ SameReturns
        /\ answer = "ok" => DatasetOpen

C10_OpenBestEffort ==
    (/\ op = "create_dataset" /\ op' = op
     /\ pc \in {"get_metadata", "set_status_open"} /\ pc' # pc
     /\ answer' # "ok") =>
        /\ cat_datasets' = cat_datasets
        /\ outcome' = "returned"

\* C10 (amended): the second create_dataset never raises and returns the
\* scope, name and vuid the first returned; the dataset is OPEN after it
\* when the state query succeeded and either reported the dataset open or
\* the set_status(open=True) call that follows succeeded; when the state
\* query or the reopening fails the failure is only logged, create_dataset
\* still returns, and the dataset is left in the state it was in.
C10_IdempotentCreate == [](C10_Returns) /\ [][C10_OpenBestEffort]_vars

\* The dataset was created, closed, and created again: it is open again
C10_Witness ==
    /\ SecondCreate /\ outcome = "returned"
    /\ prev.op = "close_dataset" /\ prev.all_ok
    /\ Len(calls) >= 1 /\ LastCall.call = "set_status" /\ answer = "ok"
    /\ DatasetOpen

\* ----- C11 --------------------------------------------------------------
\* The step of DatasetManager.close_dataset that issues the close call
ManagerCloseStep == op = "close_dataset" /\ pc = "close_dataset" /\ pc' # pc

C11_Step ==
    ManagerCloseStep =>
        /\ pc' = "done"
        /\ answer' \in {"ok", "not_found", "unsupported"} =>
              outcome' = "returned" /\ ret' = "True"
        /\ answer' \in {"not_found", "unsupported"} => cat_datasets' = cat_datasets
        /\ (prev.op = "close_dataset" /\ prev.all_ok) => cat_datasets' = cat_datasets
        /\ UNCHANGED <<cat_files, cat_replicas>>

C11_Closed ==
    (op = "close_dataset" /\ Finished /\ calls # <<>> /\ answer = "ok") =>
        /\ ret = "True"
        /\ dataset_info \in DOMAIN cat_datasets => ~cat_datasets[dataset_info].is_open

\* C11: close_dataset returns True when the catalog accepts the close call
\* and when it answers "not found" or "unsupported operation"; in these two
\* tolerated cases the catalog is left as it was; an accepted close leaves
\* the dataset closed; and a close that follows an accepted close of the
\* same dataset changes nothing in the catalog, whatever it is answered.
C11_CloseIdempotent == [](C11_Closed) /\ [][C11_Step]_vars

\* The dataset was closed, and closed again with the answer "unsupported
\* operation": True was returned and the dataset is closed
C11_Witness ==
    /\ op = "close_dataset" /\ Finished
    /\ prev.op = "close_dataset" /\ prev.all_ok
    /\ calls # <<>> /\ answer = "unsupported"
    /\ ret = "True"
    /\ dataset_info \in DOMAIN cat_datasets /\ ~cat_datasets[dataset_info].is_open

\* ----- C12 --------------------------------------------------------------
InVerify == op = "verify_workflow_completion"
Listed == Cardinality(CatListFiles(cat_files, dataset_info))
DatasetClosed ==
    dataset_info \in DOMAIN cat_datasets /\ ~cat_datasets[dataset_info].is_open

\* C12 (as claimed): verify_workflow_completion never raises, and returns
\* True exactly when the dataset exists, is closed, the files listed are k,
\* and every lookup it made was answered without an error.
C12_VerifyIff ==
    (InVerify /\ Finished) =>
        /\ outcome = "returned"
        /\ ret = "True" <=>
              /\ Len(calls) = 2 /\ all_ok
              /\ DatasetClosed
              /\ Listed = expected_file_count

C12_Result ==
    (InVerify /\ Finished) =>
        /\ outcome = "returned"
        /\ ret \in {"True", "False"}
        /\ Len(calls) = 0 => ~ExtractScope(dataset_name).ok /\ ret = "False"
        /\ Len(calls) = 1 =>
              /\ LastCall.call = "get_metadata"
              /\ answer # "ok" \/ ~DatasetClosed
              /\ ret = "False"
        /\ Len(calls) = 2 =>
              /\ LastCall.call = "list_files"
              /\ DatasetClosed
              /\ ret = "True" <=>
                    \/ answer = "ok" /\ Listed = expected_file_count
                    \/ answer = "not_found" /\ expected_file_count = 0
        /\ Len(calls) <= 2

C12_ReadOnly ==
    (InVerify /\ op' = op) => UNCHANGED <<cat_datasets, cat_files, cat_replicas>>

\* C12 (amended): verify_workflow_completion never raises and changes
\* nothing in the catalog.  It returns False when the name cannot be
\* resolved, when the metadata lookup fails or finds no dataset, and when
\* the dataset is open.  For a closed dataset it returns True exactly when
\* the file listing succeeds with k files, or the listing answers "not
\* found" and k = 0 (get_dataset_count counts a missing dataset as 0 files);
\* any other answer to the listing gives False.
C12_VerifyResult == [](C12_Result) /\ [][C12_ReadOnly]_vars

\* The listing of a closed dataset answered "not found" and k = 0: True
C12_Witness ==
    /\ InVerify /\ Finished
    /\ Len(calls) = 2 /\ answer = "not_found"
    /\ expected_file_count = 0
    /\ ret = "True"

\* ----- C13 --------------------------------------------------------------
Finalized == InWorkflow /\ result.end_time # None

C13_Once ==
    InWorkflow =>
        /\ mark_count <= 1
        /\ mark_count = 1 <=> result.end_time # None
        /\ Finished => mark_count = 1
        /\ result.success => mark_count = 1 /\ result.errors = <<>>

C13_ReadOnly == Finalized => result' = result /\ mark_count' = mark_count

\* C13: a run of execute_workflow calls mark_complete exactly once - either
\* with success or with failure - so end_time is set exactly when it was
\* called; and once the result is finalized no later step, the cleanup
\* included, changes any field of it.
C13_FinalizedOnce == [](C13_Once) /\ [][C13_ReadOnly]_vars

\* A failed run whose cleanup call was accepted: finalized once
C13_Witness ==
    /\ InWorkflow /\ Finished
    /\ mark_count = 1 /\ ~result.success
    /\ Len(calls) >= 1 /\ StepOf(LastCall) = 5 /\ answer = "ok"

\* ----- C14 --------------------------------------------------------------
FailedIn(step_msg) == result.errors # <<>> /\ result.errors[1][1] = step_msg

\* C14: in every state of a run dataset_closed implies
\* files_added_to_dataset >= 1, which implies files_registered >= 1, which
\* implies dataset_created; success implies all four and an empty errors
\* list; and a run that failed in a step has the flags of that step and of
\* the steps after it at their initial values, those of the steps before
\* it set.
C14_FlagOrder ==
    InWorkflow =>
        /\ result.dataset_closed => result.files_added_to_dataset >= 1
        /\ result.files_added_to_dataset >= 1 => result.files_registered >= 1
        /\ result.files_registered >= 1 => result.dataset_created
        /\ result.success =>
              /\ result.dataset_created
              /\ result.files_registered >= 1
              /\ result.files_added_to_dataset >= 1
              /\ result.dataset_closed
              /\ result.errors = <<>>
        /\ result.errors # <<>> =>
              /\ ~result.success /\ ~result.dataset_closed
              /\ \/ FailedIn("Failed to create dataset")
                 \/ FailedIn("Failed to register files")
                 \/ FailedIn("Failed to add files to dataset")
                 \/ FailedIn("Failed to close dataset")
        /\ FailedIn("Failed to create dataset") =>
              /\ ~result.dataset_created /\ result.dataset_info = None
              /\ result.files_registered = 0
              /\ result.files_added_to_dataset = 0
        /\ FailedIn("Failed to register files") =>
              /\ result.dataset_created
              /\ result.files_registered = 0
              /\ result.files_added_to_dataset = 0
        /\ FailedIn("Failed to add files to dataset") =>
              /\ result.files_registered >= 1
              /\ result.files_added_to_dataset = 0
        /\ FailedIn("Failed to close dataset") =>
              result.files_added_to_dataset >= 1

\* A run that failed in the attach step
C14_Witness ==
    /\ InWorkflow /\ Finished
    /\ FailedIn("Failed to add files to dataset")
    /\ result.dataset_created /\ result.files_registered >= 1
    /\ result.files_added_to_dataset = 0 /\ ~result.dataset_closed

\* ----- C15 --------------------------------------------------------------
\* A step of a run whose result is already finalized as failed
StepAfterFailure ==
    /\ Finalized /\ ~result.success
    /\ op' = op /\ pc' # pc

OnlyLifetimeChanged ==
    /\ DOMAIN cat_datasets' = DOMAIN cat_datasets
    /\ \A d \in DOMAIN cat_datasets :
          /\ cat_datasets'[d].is_open = cat_datasets[d].is_open
          /\ d # dataset_info => cat_datasets'[d] = cat_datasets[d]

C15_Frame ==
    StepAfterFailure =>
        /\ Len(calls') = Len(calls) + 1
        /\ calls'[Len(calls')].call = "set_metadata"
        /\ calls'[Len(calls')].did = dataset_info
        /\ calls'[Len(calls')].value = GraceSeconds
        /\ cat_replicas' = cat_replicas
        /\ cat_files' = cat_files
        /\ OnlyLifetimeChanged
        /\ pc' = "done"

C15_Kept ==
    (InWorkflow /\ op' = op) =>
        /\ cat_replicas \subseteq cat_replicas'
        /\ \A f \in DOMAIN cat_files :
              f \in DOMAIN cat_files' /\ cat_files'[f] = cat_files[f]

C15_OneCall ==
    (/\ InWorkflow /\ Finished
     /\ FailedIn("Failed to add files to dataset") \/ FailedIn("Failed to close dataset")) =>
        /\ Len(calls) = result.end_time[1] + 1
        /\ StepOf(LastCall) = 5
        /\ \A i \in 1..Len(calls) :
              calls[i].call \in {"add_dataset", "set_metadata", "get_metadata",
                                 "set_status", "add_replicas", "add_files_to_dataset"}
        /\ \A i \in 1..Len(calls) :
              (calls[i].call = "set_status" /\ calls[i].open = "True") =>
                  \A j \in CallsOfStep(2) : i < j

\* C15: after a run has failed in the attach or the close step it issues
\* one more call and no other: set_metadata(lifetime, 3600) on its dataset.
\* That step changes at most the lifetime of the dataset: the replicas and
\* the attached files in the catalog are what they were, no dataset
\* disappears, no dataset changes its open state; during the whole run no
\* replica and no attached file is removed; and the run issues no
\* set_status(open=True) after its registration step.
C15_NoRollback == [](C15_OneCall) /\ [][C15_Frame /\ C15_Kept]_vars

\* The attach step failed after one file was attached; the cleanup call was
\* accepted; the replica and the attached file are still in the catalog
C15_Witness ==
    /\ InWorkflow /\ Finished
    /\ FailedIn("Failed to add files to dataset")
    /\ StepOf(LastCall) = 5 /\ answer = "ok"
    /\ cat_replicas # {}
    /\ DOMAIN cat_files # {}
    /\ cat_datasets[dataset_info].lifetime = Some(GraceSeconds)

\* ----- C16 --------------------------------------------------------------
AddDatasetCalls == { i \in 1..Len(calls) : calls[i].call = "add_dataset" }
Rejected == ~ResolveScoped(dataset_name, dataset_scope).ok

C16_CreateFails ==
    InWorkflow =>
        /\ Cardinality(AddDatasetCalls) <= 1
        /\ AddDatasetCalls \subseteq {1}
        /\ Rejected => Finished /\ calls = <<>> /\ FailedIn("Failed to create dataset")
        /\ add_dataset_answer = "error" =>
              Finished /\ Len(calls) = 1 /\ FailedIn("Failed to create dataset")
        /\ FailedIn("Failed to create dataset") =>
              /\ Rejected \/ add_dataset_answer = "error"
              /\ Finished /\ outcome = "returned"
              /\ Len(calls) <= 1
              /\ \A k \in 2..5 : CallsOfStep(k) = {}
              /\ ~result.dataset_created
              /\ ~result.success /\ result.end_time # None
              /\ Len(result.errors) = 2

\* C16: a run issues add_dataset at most once, as its first call.  When the
\* name or the scope is rejected by validation the run issues no catalog
\* call; when add_dataset is answered with an error other than "already
\* exists" it is the run's only call.  In both cases the run has ended:
\* no register, attach, close or cleanup call, dataset_created false, the
\* result finalized as failed with "Failed to create dataset" recorded; and
\* a run fails in step 1 for no other reason.
C16_CreateNotRetried == [](C16_CreateFails)

\* A run whose scope argument was rejected, and one call-free failed result
C16_Witness ==
    /\ InWorkflow /\ Finished
    /\ dataset_scope # None /\ ValidateDatasetName(dataset_name)
    /\ calls = <<>>
    /\ FailedIn("Failed to create dataset")
    /\ ~result.dataset_created /\ ~result.success

(***************************************************************************)
(* Properties of extract_scope (specification ScopeSpec).                  *)
(***************************************************************************)
\* extract_scope has returned or raised
Resolved == op = "extract_scope" /\ pc = "done"
\* The identifier it worked on: the argument less one trailing slash when
\* strip_slash is set
Id == IF strip_slash /\ dataset_name # <<>> /\ dataset_name[Len(dataset_name)] = "/"
      THEN SubSeq(dataset_name, 1, Len(dataset_name) - 1)
      ELSE dataset_name
HasColon == \E i \in 1..Len(Id) : Id[i] = ":"
HasDot == \E i \in 1..Len(Id) : Id[i] = "."
DotCount(s) == Cardinality({ i \in 1..Len(s) : s[i] = "." })
Dotted(scope, name) == scope \o <<".">> \o name

\* t is s without its leading and trailing blanks
IsTrimOf(t, s) ==
    \E lo, hi \in 0..Len(s) :
        /\ lo <= hi
        /\ t = SubSeq(s, lo + 1, hi)
        /\ \A i \in 1..lo : s[i] = " "
        /\ \A i \in (hi + 1)..Len(s) : s[i] = " "
        /\ t # <<>> => t[1] # " " /\ t[Len(t)] # " "

\* ----- C17 --------------------------------------------------------------
\* C17: for an identifier with a colon extract_scope returns, and scope is
\* the text before the first colon and name all the text after it, each
\* without its surrounding blanks - whatever dots, further colons or
\* user/group prefix the identifier has.
C17_ColonSplit ==
    (Resolved /\ HasColon) =>
        /\ outcome = "returned"
        /\ \E i \in 1..Len(Id) :
              /\ Id[i] = ":"
              /\ \A j \in 1..(i - 1) : Id[j] # ":"
              /\ IsTrimOf(dataset_info.scope, SubSeq(Id, 1, i - 1))
              /\ IsTrimOf(dataset_info.name, SubSeq(Id, i + 1, Len(Id)))

\* "user.u: :" gives scope "user.u" and name ":" (the text after the first
\* colon, trimmed)
C17_Witness ==
    /\ Resolved /\ outcome = "returned"
    /\ dataset_name = UserPrefix \o <<".", "u", ":", " ", ":">> \/
       dataset_name = UserPrefix \o <<":", " ", ":", ".">>
    /\ ~strip_slash
    /\ dataset_info.scope \in {UserPrefix \o <<".", "u">>, UserPrefix}
    /\ dataset_info.name \in {<<":">>, <<":", ".">>}

\* ----- C18 --------------------------------------------------------------
UserOrGroupDotted ==
    \/ Len(Id) >= 5 /\ SubSeq(Id, 1, 5) = <<"u","s","e","r",".">>
    \/ Len(Id) >= 6 /\ SubSeq(Id, 1, 6) = <<"g","r","o","u","p",".">>

\* C18: for an identifier without colon that starts with "user." or
\* "group.", extract_scope returns scope and name with scope + "." + name
\* the identifier; with three segments or more scope holds exactly one dot
\* (it is the first two segments); with two segments scope is the first
\* segment and name the second.
C18_UserGroupSplit ==
    (Resolved /\ ~HasColon /\ UserOrGroupDotted) =>
        /\ outcome = "returned"
        /\ Dotted(dataset_info.scope, dataset_info.name) = Id
        /\ DotCount(Id) >= 2 => DotCount(dataset_info.scope) = 1
        /\ DotCount(Id) = 1 =>
              DotCount(dataset_info.scope) = 0 /\ DotCount(dataset_info.name) = 0

\* "group.u.." has four segments: scope "group.u", name "."
C18_Witness ==
    /\ Resolved /\ outcome = "returned"
    /\ Id = <<"g","r","o","u","p",".","u",".",".">>
    /\ dataset_info.scope = <<"g","r","o","u","p",".","u">>
    /\ dataset_info.name = <<".">>

\* ----- C19 --------------------------------------------------------------
\* C19: for an identifier without colon, with a dot, that starts neither
\* with "user" nor with "group", extract_scope returns scope and name with
\* scope + "." + name the identifier and no dot in name: name is the last
\* segment and scope all the segments before it.
C19_LastSegmentIsName ==
    (/\ Resolved /\ ~HasColon /\ HasDot
     /\ ~(Len(Id) >= 4 /\ SubSeq(Id, 1, 4) = <<"u","s","e","r">>)
     /\ ~(Len(Id) >= 5 /\ SubSeq(Id, 1, 5) = <<"g","r","o","u","p">>)) =>
        /\ outcome = "returned"
        /\ Dotted(dataset_info.scope, dataset_info.name) = Id
        /\ DotCount(dataset_info.name) = 0

\* "u..u" gives scope "u." and name "u"
C19_Witness ==
    /\ Resolved /\ outcome = "returned"
    /\ Id = <<"u", ".", ".", "u">>
    /\ dataset_info.scope = <<"u", ".">>
    /\ dataset_info.name = <<"u">>

\* ----- C20 --------------------------------------------------------------
\* C20: extract_scope raises ValidationError exactly when the identifier,
\* less one trailing slash when strip_slash is set, has neither a colon nor
\* a dot; with a colon or a dot it returns a pair.
C20_FailsIffNoSeparator ==
    Resolved =>
        /\ outcome \in {"returned", "raised"}
        /\ outcome = "raised" <=> ~HasColon /\ ~HasDot
        /\ outcome = "raised" => ret = "ValidationError"
        /\ outcome = "returned" => ret = "Tuple"

\* "u//" with strip_slash set is "u/": no colon, no dot, ValidationError
C20_Witness ==
    /\ Resolved /\ outcome = "raised"
    /\ strip_slash
    /\ dataset_name = <<"u", "/", "/">>
    /\ ret = "ValidationError"

(***************************************************************************)
(* Properties of the identifiers create_dataset accepts.                   *)
(***************************************************************************)
\* ----- C21 --------------------------------------------------------------
\* create_dataset's resolution of a name: validate_dataset_name passed and
\* extract_scope (strip_slash not set) returned
AcceptedAndResolved ==
    /\ Resolved /\ ~strip_slash /\ outcome = "returned"
    /\ ValidateDatasetName(dataset_name)

OnlyNameChars(s) == \A i \in 1..Len(s) : s[i] \in NameChars

\* C21: for every dataset name that validate_dataset_name accepts and
\* extract_scope resolves, scope and name are non-empty, hold only
\* characters of [A-Za-z0-9._-], and extract_scope(scope + ":" + name) gives
\* the same scope and name back.
C21_IdentifierInvariant ==
    AcceptedAndResolved =>
        /\ dataset_info.scope # <<>>
        /\ dataset_info.name # <<>>
        /\ OnlyNameChars(dataset_info.scope)
        /\ OnlyNameChars(dataset_info.name)
        /\ LET again == ExtractScope(dataset_info.scope \o <<":">> \o dataset_info.name) IN
           /\ again.ok
           /\ again.scope = dataset_info.scope
           /\ again.name = dataset_info.name

(***************************************************************************)
(* Properties of the file records.                                         *)
(***************************************************************************)
\* ----- C22 --------------------------------------------------------------
\* "md5:" and 32 hexadecimal characters, or "ad:" and 8 of them
WellFormedChecksum(c) ==
    \/ /\ Len(c) = 36
       /\ SubSeq(c, 1, 4) = <<"m","d","5",":">>
       /\ \A i \in 5..36 : c[i] \in HexChars
    \/ /\ Len(c) = 11
       /\ SubSeq(c, 1, 3) = <<"a","d",":">>
       /\ \A i \in 4..11 : c[i] \in HexChars

\* an absolute path, or a URL: scheme, "://", something
WellFormedPfn(p) ==
    /\ p # <<>>
    /\ \/ p[1] = "/" /\ ~HasSchemeMark(p)
       \/ /\ p[1] \in Letters
          /\ \E k \in 1..Len(p) - 3 :
                /\ \A i \in 2..k : p[i] \in SchemeChars
                /\ SubSeq(p, k + 1, k + 3) = <<":", "/", "/">>
                /\ p[k + 4] # Newline

\* no field of the record is one the validators reject
FieldsValid(f) ==
    /\ f.lfn # <<>> /\ Len(f.lfn) <= 1024
    /\ WellFormedPfn(f.pfn)
    /\ f.size.is_int /\ f.size.value >= 0
    /\ WellFormedChecksum(f.checksum)

FileCalls ==
    { i \in 1..Len(calls) : calls[i].call \in {"add_replicas", "add_files_to_dataset"} }

ChecksumValidated == op = "validate_checksum" /\ pc = "done"

\* C23: validate_checksum returns True exactly for "md5:" followed by 32
\* hexadecimal characters and "ad:" followed by 8 hexadecimal characters,
\* and raises ValidationError for every other string.
C23_ChecksumFormat ==
    ChecksumValidated =>
        /\ outcome = "returned" <=> WellFormedChecksum(files[1].checksum)
        /\ outcome = "raised" <=> ~WellFormedChecksum(files[1].checksum)
        /\ outcome = "raised" => ret = "ValidationError"

(***************************************************************************)
(* Properties of the lifetime and of the reopening in create_dataset.      *)
(***************************************************************************)
\* create_dataset runs, alone or as the first step of a workflow run
InCreate == op \in {"create_dataset", "execute_workflow"}
\* the set_metadata calls of create_dataset (the cleanup's is of step 5)
LifetimeCalls == { i \in 1..Len(calls) : calls[i].call = "set_metadata" /\ StepOf(calls[i]) = 1 }
\* add_dataset was called and did not make create_dataset raise
PastAddDataset == Len(calls) >= 1 /\ add_dataset_answer \in {"ok", "already_exists"}

\* ----- C27 --------------------------------------------------------------
\* C27: when lifetime_days is given, create_dataset issues exactly one
\* set_metadata call, right after add_dataset, with lifetime_days * 86400
\* as value; whatever its answer, create_dataset goes on to the state query
\* with nothing else changed, and returns the dataset's identifiers; when
\* lifetime_days is omitted it issues no such call.
C27_Calls ==
    InCreate =>
        /\ lifetime_days = None => LifetimeCalls = {}
        /\ lifetime_days # None =>
              /\ LifetimeCalls \subseteq {2}
              /\ \A i \in LifetimeCalls :
                    /\ calls[1].call = "add_dataset"
                    /\ calls[i].value = lifetime_days[1] * 86400
                    /\ calls[i].did = dataset_info
              /\ (PastAddDataset /\ pc # "set_lifetime") => LifetimeCalls = {2}
        /\ (op = "create_dataset" /\ Finished /\ PastAddDataset) =>
              /\ outcome = "returned"
              /\ ret = "DatasetInfo"
              /\ create_returns[Len(create_returns)].info = DatasetInfo(dataset_info)

C27_Step ==
    pc = "set_lifetime" =>
        /\ pc' = "get_metadata"
        /\ UNCHANGED <<result, ret, outcome, created_datasets, create_returns, dataset_info>>

C27_LifetimeBestEffort == [](C27_Calls) /\ [][C27_Step]_vars

\* create_dataset has returned although its lifetime call failed: the
\* dataset is in the catalog without a lifetime
C27_Witness ==
    /\ op = "create_dataset" /\ Finished /\ outcome = "returned"
    /\ lifetime_days = Some(7)
    /\ LifetimeCalls = {2}
    /\ calls[2].value = 604800
    /\ dataset_info \in DOMAIN cat_datasets
    /\ cat_datasets[dataset_info].lifetime = None

\* ----- C28 --------------------------------------------------------------
OpenCalls == { i \in 1..Len(calls) : calls[i].call = "set_status" /\ calls[i].open = "True" }
StateQueries == { i \in 1..Len(calls) : calls[i].call = "get_metadata" }
\* this step issues set_status(open=True)
IssuesOpen ==
    /\ Len(calls') = Len(calls) + 1
    /\ calls'[Len(calls')].call = "set_status"
    /\ calls'[Len(calls')].open = "True"
\* the catalog holds the dataset of the operation as not open
HeldNotOpen == dataset_info \in DOMAIN cat_datasets /\ ~cat_datasets[dataset_info].is_open

\* C28: create_dataset queries the state of the dataset once, after
\* add_dataset and the lifetime call, and issues set_status(open=True) if
\* and only if the query was answered and reported the dataset as not open:
\* the call follows the query at once, and a dataset reported open, or a
\* query that failed, is followed by no set_status call.
C28_Calls ==
    InCreate =>
        /\ Cardinality(StateQueries) <= 1
        /\ Cardinality(OpenCalls) <= 1
        /\ \A i \in OpenCalls : i - 1 \in StateQueries
        /\ (PastAddDataset /\ pc \notin {"set_lifetime", "get_metadata"}) =>
              Cardinality(StateQueries) = 1

C28_Step ==
    /\ IssuesOpen => (LastCall.call = "get_metadata" /\ answer = "ok" /\ HeldNotOpen)
    /\ (pc = "get_metadata" /\ answer' = "ok" /\ HeldNotOpen) => pc' = "set_status_open"
    /\ (pc = "get_metadata" /\ ~(answer' = "ok" /\ HeldNotOpen)) => pc' # "set_status_open"
    /\ pc = "set_status_open" => IssuesOpen

C28_OpenOnlyIfNotOpen == [](C28_Calls) /\ [][C28_Step]_vars

\* create_dataset found the dataset closed and has opened it
C28_Witness ==
    /\ op = "create_dataset" /\ Finished /\ outcome = "returned"
    /\ add_dataset_answer = "already_exists"
    /\ OpenCalls # {}
    /\ answer = "ok"
    /\ cat_datasets[dataset_info].is_open

(***************************************************************************)
(* Properties of the FileManager operations called directly                *)
(* (specification ManagerSpec).                                            *)
(***************************************************************************)
\* ----- C24 --------------------------------------------------------------
\* register_multiple_files runs with a positive batch_size
InRegisterMany == op = "register_multiple_files" /\ batch_size > 0
\* the batch calls of the log (a call of register_file_replica has value 0)
BatchCalls == { i \in 1..Len(calls) : calls[i].call = "add_replicas" /\ calls[i].value > 0 }
\* the DIDs of the batch_size records from index start on
SliceFrom(start) ==
    LET last == IF start + batch_size - 1 < Len(file_infos)
                THEN start + batch_size - 1 ELSE Len(file_infos)
    IN  [j \in 1..(last - start + 1) |-> FileDid(file_infos[start + j - 1])]
\* the batch calls that carried record r
BatchesOf(r) ==
    { i \in BatchCalls : calls[i].value <= r /\ r <= calls[i].value + batch_size - 1 }

\* C24: with a positive batch_size, every batch call of
\* register_multiple_files carries batch_size consecutive records that start
\* at a multiple of batch_size (the last batch the rest), the batches are
\* sent once and in order, at most ceil(n / batch_size) of them; whatever
\* the catalog answers the operation does not raise, and when it returns its
\* map every record has been sent in exactly one batch call.
C24_Batches ==
    InRegisterMany =>
        /\ \A i \in BatchCalls :
              /\ calls[i].value <= Len(file_infos)
              /\ (calls[i].value - 1) % batch_size = 0
              /\ calls[i].files = SliceFrom(calls[i].value)
        /\ \A i, j \in BatchCalls : i < j => calls[i].value < calls[j].value
        /\ Cardinality(BatchCalls) * batch_size < Len(file_infos) + batch_size
        /\ outcome # "raised"
        /\ Finished =>
              /\ outcome = "returned" /\ ret = "Dict"
              /\ \A r \in 1..Len(file_infos) : Cardinality(BatchesOf(r)) = 1

\* a batch call that fails is followed, after the individual retries, by
\* the next batch or by the return
C24_Step ==
    (InRegisterMany /\ pc \in {"add_replicas", "register_file_replica"}) =>
        /\ pc' \in {"add_replicas", "register_file_replica", "done"}
        /\ pc' = "done" =>
              BatchEnd(file_infos, batch_start, batch_size) = Len(file_infos)
        /\ (pc' = "add_replicas" /\ pc = "add_replicas") => batch_start' = batch_start + batch_size

C24_BatchPartition == [](C24_Batches) /\ [][C24_Step]_vars

\* Two records in batches of one: the first batch and its individual retry
\* failed, the second batch was sent all the same and accepted
C24_Witness ==
    /\ InRegisterMany /\ Finished /\ outcome = "returned"
    /\ batch_size = 1
    /\ Len(file_infos) = 2
    /\ file_infos[1].lfn = F1 /\ file_infos[2].lfn = F2
    /\ Len(calls) = 3
    /\ calls[1].value = 1 /\ calls[2].value = 0 /\ calls[3].value = 2
    /\ ~registration_results[F1]
    /\ registration_results[F2]

\* ----- C25 --------------------------------------------------------------
InRegisterOne == op = "register_file_replica"

\* C25: the add_replicas call of register_file_replica answered with
\* success or with "already exists" makes it return True with "scope:lfn"
\* added to the tracking set; any other answer makes it raise
\* FileRegistrationError with the tracking set as it was.
C25_Step ==
    (InRegisterOne /\ pc = "add_replica") =>
        /\ pc' = "done"
        /\ Len(calls') = Len(calls) + 1
        /\ calls'[Len(calls')].call = "add_replicas"
        /\ calls'[Len(calls')].files = << <<file_infos[1].scope, file_infos[1].lfn>> >>
        /\ answer' \in {"ok", "already_exists"} =>
              /\ outcome' = "returned" /\ ret' = "True"
              /\ registered_files' =
                    registered_files \cup { <<file_infos[1].scope, file_infos[1].lfn>> }
        /\ answer' \notin {"ok", "already_exists"} =>
              /\ outcome' = "raised" /\ ret' = "FileRegistrationError"
              /\ registered_files' = registered_files

C25_RegisterOneTolerance == [][C25_Step]_vars

\* "already exists": True is returned and the file is tracked although the
\* catalog did not record the replica
C25_Witness ==
    /\ InRegisterOne /\ Finished /\ outcome = "returned" /\ ret = "True"
    /\ answer = "already_exists"
    /\ Len(calls) = 1
    /\ file_infos[1].lfn = F2
    /\ <<"s1", F2>> \in registered_files
    /\ <<"s1", F2>> \notin cat_replicas

\* ----- C26 --------------------------------------------------------------
InAttachAlone == op = "add_files_to_dataset"

\* C26: a batch attach call answered "already exists" is followed by one
\* call for each file of the batch, in order; an individual answer of
\* success or "already exists" moves on to the next file and, after the
\* last, to the return of True; any other answer, to the batch call or to
\* an individual call, raises FileRegistrationError at once, with no call
\* after it.
C26_Log ==
    InAttachAlone =>
        /\ Len(calls) >= 1 =>
              calls[1].files = [j \in 1..Len(file_infos) |-> FileDid(file_infos[j])]
        /\ \A i \in 2..Len(calls) : calls[i].files = <<FileDid(file_infos[i - 1])>>
        /\ Len(calls) <= 1 + Len(file_infos)
        /\ (Finished /\ outcome = "returned" /\ Len(calls) > 1) =>
              Len(calls) = 1 + Len(file_infos)
        /\ (Finished /\ outcome = "raised" /\ calls # <<>>) => answer = "error"

C26_Step ==
    (InAttachAlone /\ pc \in {"add_files_to_dataset", "add_file_to_dataset"}) =>
        /\ (pc = "add_files_to_dataset" /\ answer' = "already_exists") =>
              pc' = "add_file_to_dataset" /\ idx' = 1
        /\ (pc = "add_files_to_dataset" /\ answer' = "ok") =>
              pc' = "done" /\ outcome' = "returned" /\ ret' = "True"
        /\ (pc = "add_file_to_dataset" /\ answer' \in {"ok", "already_exists"}) =>
              IF idx < Len(file_infos)
              THEN pc' = "add_file_to_dataset" /\ idx' = idx + 1
              ELSE pc' = "done" /\ outcome' = "returned" /\ ret' = "True"
        /\ answer' \notin {"ok", "already_exists"} =>
              pc' = "done" /\ outcome' = "raised" /\ ret' = "FileRegistrationError"

C26_AttachRetry == [](C26_Log) /\ [][C26_Step]_vars

\* The batch of two was answered "already exists", both files were retried
\* alone, the second was answered "already exists" again, and True came back
C26_Witness ==
    /\ InAttachAlone /\ Finished /\ outcome = "returned" /\ ret = "True"
    /\ Len(file_infos) = 2
    /\ Len(calls) = 3
    /\ answer = "already_exists"
    /\ cat_files # EmptyFn

(***************************************************************************)
(* Properties of the DatasetManager operations called directly             *)
(* (specification ManagerSpec).                                            *)
(***************************************************************************)
\* ----- C29 --------------------------------------------------------------
InAttachFiles == op = "attach_files"
AttachDidsCalls == { i \in 1..Len(calls) : calls[i].call = "attach_dids" }
LookupCalls == { i \in 1..Len(calls) : calls[i].call = "list_replicas" }
LacksKey == \E j \in 1..Len(files) : ~({"scope", "name"} \subseteq DOMAIN files[j])

\* C29: attach_files issues attach_dids at most once, as its last call,
\* after get_did found the dataset, and never when a file entry lacks
\* 'scope' or 'name' (it raises DatasetError then); the call carries the
\* DIDs of all the entries in order.  With an rse there is one lookup for
\* each file before it, and whatever a lookup answers the operation goes on
\* to the next lookup or to attach_dids.  A get_did or attach_dids call
\* that is not answered with success makes the operation raise DatasetError.
C29_Log ==
    InAttachFiles =>
        /\ Cardinality(AttachDidsCalls) <= 1
        /\ (dataset_info = NoDid \/ LacksKey) =>
              /\ AttachDidsCalls = {}
              /\ LookupCalls = {}
              /\ Finished => outcome = "raised" /\ ret = "DatasetError"
        /\ \A i \in AttachDidsCalls :
              /\ i = Len(calls)
              /\ calls[1].call = "get_did"
              /\ calls[i].did = dataset_info
              /\ calls[i].files = [j \in 1..Len(files) |-> <<files[j].scope, files[j].name>>]
              /\ LookupCalls = IF rse = None THEN {} ELSE 2..(1 + Len(files))
              /\ \A k \in LookupCalls : calls[k].files = << <<files[k-1].scope, files[k-1].name>> >>
        /\ Finished =>
              /\ outcome = "raised" => ret = "DatasetError"
              /\ outcome = "returned" => ret = "Dict" /\ AttachDidsCalls # {}

C29_Step ==
    InAttachFiles =>
        /\ (pc = "get_did" /\ answer' # "ok") =>
              pc' = "done" /\ outcome' = "raised" /\ ret' = "DatasetError"
        /\ pc = "list_replicas" =>
              /\ outcome' = "running"
              /\ pc' = IF idx < Len(files) THEN "list_replicas" ELSE "attach_dids"
        /\ pc = "attach_dids" =>
              /\ pc' = "done"
              /\ answer' = "ok" => outcome' = "returned"
              /\ answer' # "ok" => outcome' = "raised" /\ ret' = "DatasetError"

C29_AttachFiles == [](C29_Log) /\ [][C29_Step]_vars

\* Two files attached with an rse, although a lookup was not answered with
\* success
C29_Witness ==
    /\ InAttachFiles /\ Finished /\ outcome = "returned"
    /\ rse # None
    /\ Len(files) = 2
    /\ Len(calls) = 4
    /\ ~all_ok
    /\ answer = "ok"
    /\ <<"s1", F1>> \in DOMAIN cat_files

\* ----- C30 --------------------------------------------------------------
InDelete == op = "delete_dataset"

\* C30: delete_dataset issues one call, set_metadata with the lifetime
\* grace_period_hours * 3600 on its dataset, and that call takes nothing out
\* of the catalog; answered with success it returns True and the identifier
\* is no longer in the tracking set, answered "not found" it returns True
\* with the tracking set as it was, and any other answer raises DatasetError.
C30_Log ==
    InDelete =>
        /\ Len(calls) <= 1
        /\ (Finished /\ dataset_info # NoDid) => Len(calls) = 1
        /\ \A i \in 1..Len(calls) :
              /\ calls[i].call = "set_metadata"
              /\ calls[i].did = dataset_info
              /\ calls[i].value = grace_period_hours[1] * 3600

C30_Step ==
    (InDelete /\ pc = "delete_dataset") =>
        /\ DOMAIN cat_datasets' = DOMAIN cat_datasets
        /\ \A d \in DOMAIN cat_datasets :
              /\ cat_datasets'[d].is_open = cat_datasets[d].is_open
              /\ d # dataset_info => cat_datasets'[d] = cat_datasets[d]
        /\ UNCHANGED <<cat_files, cat_replicas>>
        /\ answer' = "ok" =>
              /\ outcome' = "returned" /\ ret' = "True"
              /\ created_datasets' = created_datasets \ {dataset_info}
        /\ answer' = "not_found" =>
              /\ outcome' = "returned" /\ ret' = "True"
              /\ created_datasets' = created_datasets
        /\ answer' \notin {"ok", "not_found"} =>
              /\ outcome' = "raised" /\ ret' = "DatasetError"
              /\ created_datasets' = created_datasets

C30_DeleteSetsLifetime == [](C30_Log) /\ [][C30_Step]_vars

\* After delete_dataset with two hours of grace the dataset is still in the
\* catalog, with a lifetime of 7200 seconds, and is no longer tracked
C30_Witness ==
    /\ InDelete /\ Finished /\ outcome = "returned" /\ ret = "True"
    /\ answer = "ok"
    /\ grace_period_hours = Some(2)
    /\ dataset_info \in DOMAIN cat_datasets
    /\ cat_datasets[dataset_info].lifetime = Some(7200)
    /\ dataset_info \notin created_datasets

(***************************************************************************)
(* Further properties of execute_workflow (specification Spec).            *)
(***************************************************************************)
\* ----- C33 --------------------------------------------------------------
\* The run's add_dataset was answered "already exists": the dataset was in
\* the catalog before the run
Preexisting == add_dataset_answer = "already_exists"

C33_Flag ==
    (InWorkflow /\ Preexisting) =>
        /\ pc \notin {"add_dataset", "set_lifetime", "get_metadata", "set_status_open"}
              => result.dataset_created
        /\ (Finished /\ ~result.success) =>
              /\ result.dataset_created
              /\ LastCall.call = "set_metadata"
              /\ LastCall.value = 3600
              /\ LastCall.did = dataset_info
              /\ answer = "ok" => cat_datasets[dataset_info].lifetime = Some(3600)

C33_Step ==
    (InWorkflow /\ op' = op /\ add_dataset_answer' = "already_exists"
       /\ pc \in {"add_dataset", "set_lifetime", "get_metadata", "set_status_open"}
       /\ pc' \notin {"add_dataset", "set_lifetime", "get_metadata", "set_status_open"})
      => result'.dataset_created /\ ~result.dataset_created

\* C33: in a run whose add_dataset call was answered "already exists",
\* dataset_created becomes true when create_dataset returns, and if the run
\* then fails its last call is set_metadata(lifetime, 3600) on that dataset,
\* which was in the catalog before the run; when the catalog accepts the
\* call the dataset's lifetime is 3600 seconds.
C33_PreexistingCleanedUp == [](C33_Flag) /\ [][C33_Step]_vars

\* A dataset that was there before the run, the run failed after step 1,
\* and the dataset now expires in an hour
C33_Witness ==
    /\ InWorkflow /\ Finished /\ Preexisting
    /\ ~result.success /\ result.dataset_created
    /\ FailedIn("Failed to register files")
    /\ answer = "ok"
    /\ cat_datasets[dataset_info].lifetime = Some(3600)

\* ----- C34 --------------------------------------------------------------
\* C34: in every finalized WorkflowResult files_registered is at most the
\* number of input records and files_added_to_dataset is 0 or equal to
\* files_registered.
C34_CountsConsistent ==
    (InWorkflow /\ Finalized) =>
        /\ result.files_registered <= Len(files)
        /\ result.files_added_to_dataset \in {0, result.files_registered}

\* ----- C36 --------------------------------------------------------------
EmptyRun == InWorkflow /\ files = <<>>
CreateStepPcs == {"add_dataset", "set_lifetime", "get_metadata", "set_status_open"}

C36_State ==
    EmptyRun =>
        /\ CallsOfStep(2) = {} /\ CallsOfStep(3) = {} /\ CallsOfStep(4) = {}
        /\ pc \in CreateStepPcs \cup {"cleanup", "done"}
        /\ result.files_registered = 0
        /\ result.files_added_to_dataset = 0
        /\ ~result.success /\ ~result.dataset_closed
        /\ (Finished /\ add_dataset_answer \in {"ok", "already_exists"}) =>
              /\ result.dataset_created
              /\ FailedIn("Failed to register files")
              /\ CallsOfStep(5) = {Len(calls)}
              /\ LastCall.call = "set_metadata"
              /\ LastCall.value = 3600
              /\ LastCall.did = dataset_info
        /\ (Finished /\ add_dataset_answer = "ok" /\ answer = "ok") =>
              /\ dataset_info \in DOMAIN cat_datasets
              /\ cat_datasets[dataset_info].is_open
              /\ cat_datasets[dataset_info].lifetime = Some(3600)
        /\ Finished => Finalized

C36_Step ==
    (EmptyRun /\ op' = op /\ pc \in CreateStepPcs /\ pc' \notin CreateStepPcs) =>
        /\ pc' \in {"cleanup", "done"}
        /\ pc' = "cleanup" <=> add_dataset_answer' \in {"ok", "already_exists"}
        /\ Finalized' /\ ~result'.success

\* C36: a run with an empty file list issues no add_replicas, no
\* add_files_to_dataset and no close call and never succeeds: once step 1
\* has created the dataset (added to the catalog open, or found there) the
\* run is finalized as failed in the registration step with
\* files_registered = 0, and its last call is the cleanup
\* set_metadata(lifetime, 3600) on that dataset.
C36_EmptyListFails == [](C36_State) /\ [][C36_Step]_vars

\* A run with no files: the dataset was added in step 1, is open, and
\* expires in an hour
C36_Witness ==
    /\ EmptyRun /\ Finished
    /\ add_dataset_answer = "ok" /\ answer = "ok"
    /\ result.dataset_created /\ ~result.success
    /\ cat_datasets[dataset_info].is_open
    /\ cat_datasets[dataset_info].lifetime = Some(3600)

\* ----- C37 --------------------------------------------------------------
\* The state query of create_dataset, or the set_status(open=True) call, is
\* answered with a failure in this step
OpenFails ==
    /\ InWorkflow /\ op' = op
    /\ \/ pc = "get_metadata" /\ answer' # "ok"
       \/ pc = "set_status_open" /\ answer' # "ok"

C37_Step ==
    OpenFails =>
        /\ result'.dataset_created
        /\ result'.dataset_info = Some(DatasetInfo(dataset_info))
        /\ dataset_info \in created_datasets'
        /\ Len(create_returns') = Len(create_returns) + 1
        /\ cat_datasets' = cat_datasets
        /\ IF files # <<>> /\ \A i \in 1..Len(files) : Convertible(files[i])
           THEN pc' = "add_replicas" /\ result'.errors = <<>> /\ outcome' = "running"
           ELSE FailedIn("Failed to register files")'

\* C37: when get_metadata or set_status(open=True) is answered with a
\* failure, create_dataset still returns its dictionary: the run sets
\* dataset_created and goes on to the registration step (to its add_replicas
\* call when the file list is not empty and well formed), and the catalog
\* is as it was, so the dataset may not be open.
C37_OpenFailureNotFatal == [][C37_Step]_vars

\* The run is at its attach call and the dataset is closed in the catalog
C37_Witness ==
    /\ InWorkflow /\ pc = "add_files_to_dataset"
    /\ result.dataset_created /\ result.files_registered >= 1
    /\ dataset_info \in DOMAIN cat_datasets
    /\ ~cat_datasets[dataset_info].is_open
    /\ \E i \in 1..Len(calls) : calls[i].call = "set_status" /\ calls[i].open = "True"

\* ----- C39 --------------------------------------------------------------
StepMessages ==
    {"Failed to create dataset", "Failed to register files",
     "Failed to add files to dataset", "Failed to close dataset"}

C39_Errors ==
    InWorkflow =>
        /\ Len(result.errors) \in {0, 2}
        /\ result.errors # <<>> <=> (Finalized /\ ~result.success)
        /\ result.success => result.errors = <<>>
        /\ result.errors # <<>> =>
              /\ result.errors[1][1] \in StepMessages
              /\ result.errors[2] = <<"Workflow execution failed">> \o result.errors[1]
        /\ (Finished /\ ~result.success) => Len(result.errors) = 2

C39_CleanupStep ==
    (InWorkflow /\ pc = "cleanup" /\ op' = op) => result'.errors = result.errors

\* C39: the errors list of a run's WorkflowResult is empty until the run is
\* finalized as failed and empty on every successful run; on a failed run
\* it holds exactly two messages, the message of the failing step
\* ('Failed to create dataset', 'Failed to register files', 'Failed to add
\* files to dataset' or 'Failed to close dataset') and then the 'Workflow
\* execution failed' message that wraps it; the step that issues the cleanup
\* call leaves the list as it is, whatever the answer.
C39_TwoMessages == [](C39_Errors) /\ [][C39_CleanupStep]_vars

\* A run that failed in the close step and whose cleanup call failed too:
\* two messages
C39_Witness ==
    /\ InWorkflow /\ Finished
    /\ FailedIn("Failed to close dataset")
    /\ Len(result.errors) = 2
    /\ StepOf(LastCall) = 5 /\ answer = "error"

\* ----- C35 --------------------------------------------------------------
\* Some element of the list fails FileInfo validation, lacks a required
\* key, or is not a dict
HasMalformed == \E i \in 1..Len(files) : files[i] \in MalformedItems

C35_State ==
    (InWorkflow /\ HasMalformed) =>
        /\ \A i \in 1..Len(calls) :
              calls[i].call \notin {"add_replicas", "add_files_to_dataset"}
        /\ CallsOfStep(4) = {}
        /\ cat_replicas = {} /\ registered_files = {}
        /\ result.files_registered = 0 /\ result.files_added_to_dataset = 0
        /\ ~result.success
        /\ pc \in CreateStepPcs \cup {"cleanup", "done"}
        /\ (Finished /\ result.dataset_created) =>
              /\ Finalized
              /\ FailedIn("Failed to register files")
              /\ result.errors[1][2] \in {"ValidationError", "KeyError", "ValueError"}
              /\ CallsOfStep(5) = {Len(calls)}
              /\ LastCall.call = "set_metadata"
              /\ LastCall.value = 3600
              /\ LastCall.did = dataset_info
        /\ (Finished /\ add_dataset_answer \in {"ok", "already_exists"}) =>
              result.dataset_created

\* C35: a run whose list holds an element that fails FileInfo validation,
\* lacks a required key or is not a dict issues no add_replicas call (and no
\* attach or close call) for any of its files; once step 1 has created the
\* dataset the run is finalized as failed in the registration step with
\* files_registered = 0 and its last call is the cleanup
\* set_metadata(lifetime, 3600) on the dataset.
C35_MalformedAborts == [](C35_State)

\* A valid record followed by a dict without 'checksum': nothing was
\* registered, and the dataset of step 1 got the cleanup lifetime
C35_Witness ==
    /\ InWorkflow /\ Finished
    /\ Len(files) = 2
    /\ files[1] \in WellFormedItems
    /\ files[2] \in MalformedItems /\ IsDict(files[2]) /\ "checksum" \notin DOMAIN files[2]
    /\ result.dataset_created /\ ~result.success
    /\ result.errors[1][2] = "KeyError"
    /\ answer = "ok"
    /\ cat_datasets[dataset_info].lifetime = Some(3600)

(***************************************************************************)
(* get_dataset_metadata (specification ManagerSpec).                       *)
(***************************************************************************)
\* ----- C31 --------------------------------------------------------------
InGetMetadata == op = "get_dataset_metadata"

C31_Returned ==
    (InGetMetadata /\ Finished /\ dataset_info # NoDid) =>
        /\ answer = "ok" =>
              /\ outcome = "returned" /\ ret = "Dict" /\ metadata # None
              /\ metadata[1].is_open = cat_datasets[dataset_info].is_open
              /\ metadata[1].did_type = cat_datasets[dataset_info].did_type
              /\ metadata[1].lifetime = cat_datasets[dataset_info].lifetime
              /\ metadata[1].state \in {"open", "closed"}
              /\ metadata[1].state = "open" <=>
                    (metadata[1].is_open /\ metadata[1].did_type # "CONTAINER")
        /\ answer = "not_found" =>
              outcome = "returned" /\ ret = "None" /\ metadata = None
        /\ answer = "error" =>
              outcome = "raised" /\ ret = "DatasetError" /\ metadata = None
        /\ (answer = "ok" /\ prev.op = "close_dataset" /\ prev.all_ok) =>
              metadata[1].state = "closed"
        /\ (answer = "ok" /\ prev.op = "create_dataset" /\ prev.all_ok) =>
              metadata[1].state = "open"
        /\ Len(calls) = 1 /\ calls[1].call = "get_metadata" /\ calls[1].did = dataset_info

C31_Step ==
    (op' = "get_dataset_metadata") => UNCHANGED <<cat_datasets, cat_files, cat_replicas>>

\* C31: get_dataset_metadata issues one get_metadata call and changes
\* nothing in the catalog.  When the call is answered it returns the
\* catalog's metadata with a state that is 'open' if and only if is_open is
\* true and did_type is not CONTAINER, and 'closed' otherwise; answered "not
\* found" it returns None without raising, and any other failure raises
\* DatasetError.  Right after a close_dataset whose call the catalog
\* accepted the state is 'closed', right after a create_dataset whose calls
\* were all accepted it is 'open'.
C31_DerivedState == [](C31_Returned) /\ [][C31_Step]_vars

\* The identifier names an open container: the derived state is 'closed'
C31_Witness ==
    /\ InGetMetadata /\ Finished /\ outcome = "returned"
    /\ metadata # None
    /\ metadata[1].is_open /\ metadata[1].did_type = "CONTAINER"
    /\ metadata[1].state = "closed"

\* C31, as stated: whenever close_dataset returned, the state derived right
\* after it is 'closed', and whenever create_dataset returned, it is 'open'.
C31_StateFollowsReturn ==
    (InGetMetadata /\ Finished /\ answer = "ok" /\ prev.returned) =>
        /\ prev.op = "close_dataset" => metadata[1].state = "closed"
        /\ prev.op = "create_dataset" => metadata[1].state = "open"

(***************************************************************************)
(* Two runs on one orchestrator (specification RunsSpec).                  *)
(***************************************************************************)
SecondRun == InWorkflow /\ first_run # None

\* The second run has issued the calls the first run issued up to the same
\* point, and ends where the first run ended, with the same result
SameRun ==
    /\ Len(calls) = Len(responses)
    /\ Len(calls) <= Len(first_run[1].calls)
    /\ calls = SubSeq(first_run[1].calls, 1, Len(calls))
    /\ Finished <=> Len(calls) = Len(first_run[1].calls)
    /\ Finished => result = first_run[1].result
    /\ ~Finished => outcome = "running"

\* ----- C32 --------------------------------------------------------------
\* C32: a second run with the arguments of the first, answered by the
\* catalog as the first was, issues the same catalog calls in the same
\* order and returns an equal WorkflowResult, although it starts with the
\* tracking sets and the WorkflowResult the first run left; and the first
\* run's WorkflowResult is not changed by the second.
C32_State ==
    (SecondRun /\ batch_size_arg = first_run[1].batch_size) => SameRun

C32_Step ==
    (first_run # None /\ first_run' # None) => first_run' = first_run

C32_RunsIndependent == [](C32_State) /\ [][C32_Step]_vars

\* The second run succeeded as the first did; it started with a dataset and
\* two files in the tracking sets
C32_Witness ==
    /\ SecondRun /\ Finished
    /\ batch_size_arg = first_run[1].batch_size
    /\ result.success /\ first_run[1].result.success
    /\ first_run[1].created_datasets # {}
    /\ Cardinality(first_run[1].registered_files) = 2
    /\ Len(calls) >= 5

\* ----- C38 --------------------------------------------------------------
\* The batch size of the running loop, whatever batch_size the run was given
LoopBatchSize ==
    InWorkflow =>
        /\ pc \in {"add_replicas", "register_file_replica"} => batch_size = 100
        /\ pc \in {"add_files_to_dataset", "add_file_to_dataset"} => batch_size = 1000

\* C38: two runs that differ only in batch_size, answered alike by the
\* catalog, issue the same catalog calls in the same order and return equal
\* results: the registration loop runs with batches of 100 records and the
\* attachment loop with batches of 1000, whatever batch_size is.
C38_State ==
    /\ LoopBatchSize
    /\ (SecondRun /\ batch_size_arg # first_run[1].batch_size) => SameRun

====
